---- MODULE Spec2Model ----
(***************************************************************************)
(* Model of the data synchronisation and query core of testinsights:       *)
(*   SyncOrchestrator           test_insights/data_sync/sync/orchestrator  *)
(*   ChromaDBClient             test_insights/data_sync/storage            *)
(*   PaginatedResponse / API    test_insights/data_sync/api/client         *)
(*   sync strategies            reportportal_ai/data_sync/sync/strategies  *)
(*   QueryProcessor             test_insights/llm/query_processor          *)
(*   RAGPipeline                test_insights/rag/rag_pipeline             *)
(*                                                                         *)
(* Specifications: Spec (sync() calls and the environment between them),   *)
(* RunSpec (one sync() call over several launches), LoopSpec (one sync_*   *)
(* method), FilterSpec, PageSpec, IdSpec, QuerySpec, MetricsSpec, RagSpec  *)
(* and FeedbackSpec (one call of a function, recorded in probe).           *)
(*                                                                         *)
(* Time is counted in days.  The upstream platform (ReportPortal) and the  *)
(* vector store are collaborators: the upstream is a variable that the     *)
(* environment changes between runs, the store is the map  id -> document. *)
(***************************************************************************)
EXTENDS Integers, Sequences, FiniteSets, TLC

VARIABLES
    settings,        \* the process-wide Settings object (flags, batch size)
    up_launches,     \* upstream: launch id -> launch record, for the launches that exist
    up_items,        \* upstream: launch id -> sequence of test item records
    up_logs,         \* upstream: the levels of the log entries of a test item, in order
    storage,         \* the collection: document id -> stored document
    sync_metadata,   \* SyncOrchestrator._sync_metadata
    now,             \* the clock, datetime.utcnow()
    run,             \* the frame of the sync() call in progress
    request,         \* the arguments of the current (or last) sync() call
    calls,           \* the API / storage calls of the current (or last) sync() call, in order
    outcome,         \* how the last sync() call ended: pending, returned or raised
    last_returned,   \* history: end time and mode of the last sync() call that returned
    previous_run,    \* history: the last sync() call that returned, and what it left
    spent,           \* history: sync() calls entered and calls that raised, so far
    probe            \* one call of a function outside sync(): its kind, arguments and result

vars == <<settings, up_launches, up_items, up_logs, storage,
          sync_metadata, now, run, request, calls, outcome, last_returned,
          previous_run, spent, probe>>

(***************************************************************************)
(* Bounds of the model.                                                    *)
(***************************************************************************)
MaxLaunches == 1      \* launch ids 1..MaxLaunches may exist upstream
MaxTicks == 1         \* the clock advances at most this many days
BatchSize == 2        \* settings.sync_batch_size in the model (default 100)
MaxFaults == 1        \* calls that raise, over all sync() calls
MaxSyncs == 2         \* sync() calls that get past validation
MaxCandidates == 2    \* entities handed to one filter_entities call
MaxTotal == 10        \* largest total of a PaginatedResponse looked at on its own
MaxPage == 3          \* largest page of such a response
MaxSize == 3          \* largest size of such a response
MaxWords == 2         \* words of a question put together from QuestionWords
MaxPerStatus == 3     \* retrieved documents of one status
MaxFragments == 2     \* fragments a caller reads from a streamed response
MaxBatch == 3         \* settings.sync_batch_size when one sync_* method is looked at
MaxCap == 3           \* max_logs when one sync_logs call is looked at
MaxLogs == 4          \* log entries of a test item then
MaxLoopLaunches == 3  \* launch ids 1..MaxLoopLaunches may exist upstream then

(***************************************************************************)
(* Program constants.                                                      *)
(***************************************************************************)
lookback_days == 7
max_logs == 100

Epoch == lookback_days + 3
Aged == Epoch - lookback_days      \* a start time that leaves the window after one day
Fresh == Epoch - 1

AllEntityTypes ==
    <<"project", "user", "launch", "test_item", "log", "filter", "dashboard">>

Min(a, b) == IF a < b THEN a ELSE b

EmptyMap == [x \in {} |-> x]

\* dict.get(key, default)
Get(d, k, default) == IF k \in DOMAIN d THEN d[k] ELSE default

RECURSIVE SumLen(_)
SumLen(ss) == IF ss = <<>> THEN 0 ELSE Len(Head(ss)) + SumLen(Tail(ss))

RECURSIVE Concat(_)
Concat(ss) == IF ss = <<>> THEN <<>> ELSE Head(ss) \o Concat(Tail(ss))

\* str(n) of a non-negative integer
Digits == <<"0", "1", "2", "3", "4", "5", "6", "7", "8", "9">>
RECURSIVE IntToStr(_)
IntToStr(n) ==
    IF n < 10 THEN Digits[n + 1]
    ELSE IntToStr(n \div 10) \o Digits[(n % 10) + 1]

(***************************************************************************)
(* The upstream platform.  Projects, users, filters, dashboards, widgets   *)
(* are fixed data; launches and their test items come and go (up_launches, *)
(* up_items); every item has the log entries of up_logs.                   *)
(***************************************************************************)
UpstreamProjects ==
    << [id |-> 1, projectName |-> "p1"], [id |-> 2, projectName |-> "p2"] >>

UpstreamUsers ==
    << [id |-> 1, userId |-> "u1"], [id |-> 2, userId |-> "u2"], [id |-> 3] >>

UpstreamFilters(project_name) ==
    IF project_name = "p1" THEN << [id |-> 1, name |-> "failed last week"] >> ELSE <<>>

UpstreamDashboards(project_name) ==
    IF project_name = "p2"
    THEN << [id |-> 1, widgets |-> << [widgetId |-> 1], [widgetId |-> 2], [widgetId |-> 3] >>],
            [id |-> 2] >>
    ELSE <<>>

\* the log entries of an item; "" stands for an entry without a level
UpstreamLogs(item_id) ==
    [i \in 1..Len(up_logs) |->
        IF up_logs[i] = "" THEN [id |-> 10 * item_id + i]
        ELSE [id |-> 10 * item_id + i, level |-> up_logs[i]]]

LaunchIds == 1..MaxLaunches
LaunchProject(l) == IF l % 2 = 1 THEN "p1" ELSE "p2"

\* (startTime, lastModified) of a launch: one that started at the edge of
\* the lookback window and carries an older modification time, one that is
\* recent.
LaunchStamps ==
    { [startTime |-> Aged, lastModified |-> [form |-> "digits", t |-> Aged - 1]],
      [startTime |-> Fresh, lastModified |-> [form |-> "digits", t |-> Fresh]] }

ItemStatuses == {"PASSED", "FAILED"}

LaunchRecord(l, stamp) ==
    [id |-> l, startTime |-> stamp.startTime, lastModified |-> stamp.lastModified]

ItemRecord(l, status) == [id |-> 10 * l + 1, status |-> status]

\* the launches of a project, newest first ("page.sort": "startTime,desc")
RECURSIVE SortLaunches(_)
SortLaunches(ids) ==
    IF ids = {} THEN <<>>
    ELSE LET first == CHOOSE l \in ids :
                        \A m \in ids :
                            \/ up_launches[l].startTime > up_launches[m].startTime
                            \/ /\ up_launches[l].startTime = up_launches[m].startTime
                               /\ l <= m
         IN <<up_launches[first]>> \o SortLaunches(ids \ {first})

LaunchesOf(project_name) ==
    SortLaunches({l \in DOMAIN up_launches : LaunchProject(l) = project_name})

(***************************************************************************)
(* PaginatedResponse and the list endpoints of ReportPortalAPIClient.      *)
(***************************************************************************)
PaginatedResponse(items, total, page, size) ==
    [items |-> items, total |-> total, page |-> page, size |-> size]

\* a page test that counts the last full page as having a successor
has_next_inclusive(response) == (response.page + 1) * response.size <= response.total

has_next(response) == (response.page + 1) * response.size < response.total

\* what the server returns for page.page / page.size over a result list
PageOf(list, page, size) ==
    PaginatedResponse(
        SubSeq(list, page * size + 1, Min((page + 1) * size, Len(list))),
        Len(list), page, size)

get_projects == UpstreamProjects

get_users(page, size) == PageOf(UpstreamUsers, page, size)

\* filters is <<>> (None) or <<cutoff>> for {"filter.gte.startTime": cutoff}
get_launches(project_name, page, size, filters) ==
    LET all == LaunchesOf(project_name)
        sel == IF filters = <<>> THEN all
               ELSE SelectSeq(all, LAMBDA l : l.startTime >= filters[1])
    IN PageOf(sel, page, size)

get_test_items(project_name, launch_id, page, size) ==
    PageOf(IF launch_id \in DOMAIN up_items /\ LaunchProject(launch_id) = project_name
           THEN up_items[launch_id] ELSE <<>>,
           page, size)

get_logs(project_name, item_id, page, size) ==
    PageOf(UpstreamLogs(item_id), page, size)

get_filters(project_name, page, size) ==
    PageOf(UpstreamFilters(project_name), page, size)

get_dashboards(project_name, page, size) ==
    PageOf(UpstreamDashboards(project_name), page, size)

get_widgets(project_name, widget_id) == [id |-> widget_id, widgetType |-> "chart"]

(***************************************************************************)
(* ChromaDBClient: the document identifier, the stored document, upsert.   *)
(***************************************************************************)
\* str() of an "id" value: the integer's digits, "None" when the key is absent
IdText(entity_data, key) ==
    IF key \in DOMAIN entity_data THEN IntToStr(entity_data[key]) ELSE "None"

_generate_id(entity_type, entity_data) ==
    IF entity_type \in {"launch", "test_item", "log", "filter", "dashboard"}
    THEN entity_type \o ":" \o IdText(entity_data, "id")
    ELSE IF entity_type = "user"
    THEN entity_type \o ":" \o
            (IF "userId" \in DOMAIN entity_data THEN entity_data.userId
             ELSE IdText(entity_data, "id"))
    ELSE IF entity_type = "project"
    THEN entity_type \o ":" \o Get(entity_data, "projectName", "None")
    ELSE entity_type \o ":md5"

\* dict.update: the entries of extra replace or extend those of base
Update(base, extra) ==
    [k \in DOMAIN base \cup DOMAIN extra |-> IF k \in DOMAIN extra THEN extra[k] ELSE base[k]]

\* isoformat() of a clock value
IsoFormat(t) == <<"isoformat", t>>

\* json.dumps(entity_data)
JsonDumps(entity_data) == <<"json", entity_data>>

\* the metadata _prepare_document builds at time clock, with the
\* "_entity_data" entry upsert_documents adds to it; the embedded text
\* ("document") is left out
_prepare_document(entity_type, entity_data, additional_metadata, clock) ==
    LET common ==
            [entity_type |-> entity_type,
             entity_id |-> Get(entity_data, "id", ""),
             created_at |-> IsoFormat(clock),
             last_modified |-> Get(entity_data, "lastModified", IsoFormat(clock))]
        specific ==
            IF entity_type = "launch"
            THEN [launch_name |-> Get(entity_data, "name", ""),
                  launch_number |-> Get(entity_data, "number", 0),
                  status |-> Get(entity_data, "status", ""),
                  mode |-> Get(entity_data, "mode", ""),
                  owner |-> Get(entity_data, "owner", "")]
            ELSE IF entity_type = "test_item"
            THEN [item_name |-> Get(entity_data, "name", ""),
                  item_type |-> Get(entity_data, "type", ""),
                  status |-> Get(entity_data, "status", ""),
                  launch_id |-> Get(entity_data, "launchId", "")]
            ELSE IF entity_type = "log"
            THEN [level |-> Get(entity_data, "level", ""),
                  item_id |-> Get(entity_data, "itemId", ""),
                  launch_id |-> Get(entity_data, "launchId", "")]
            ELSE EmptyMap
    IN [id |-> _generate_id(entity_type, entity_data),
        metadata |-> Update(Update(Update(common, specific), additional_metadata),
                            [_entity_data |-> JsonDumps(entity_data)])]

\* an insert that keeps the stored document and files the new one under
\* another id
RECURSIVE CollectionInsert(_, _)
CollectionInsert(coll, docs) ==
    IF docs = <<>> THEN coll
    ELSE LET d == Head(docs)
             id == IF d.id \in DOMAIN coll THEN d.id \o "+" ELSE d.id
         IN CollectionInsert([i \in DOMAIN coll \cup {id} |->
                                IF i = id THEN d.metadata ELSE coll[i]],
                             Tail(docs))

\* collection.upsert: insert or replace by id, in the order of the batch
RECURSIVE CollectionUpsert(_, _)
CollectionUpsert(coll, docs) ==
    IF docs = <<>> THEN coll
    ELSE CollectionUpsert(Update(coll, [i \in {Head(docs).id} |-> Head(docs).metadata]),
                          Tail(docs))

\* the collection after upsert_documents(entity_type, entities, additional_metadata)
upsert_documents(coll, entity_type, entities, additional_metadata, clock) ==
    IF entities = <<>> THEN coll
    ELSE CollectionUpsert(coll,
            [i \in 1..Len(entities) |->
                _prepare_document(entity_type, entities[i], additional_metadata, clock)])

get_existing_ids(coll, entity_type) ==
    {i \in DOMAIN coll : coll[i].entity_type = entity_type}

get_statistics(coll) ==
    LET count == [t \in {"launch", "test_item", "log", "user", "project", "filter",
                         "dashboard"} |-> Cardinality(get_existing_ids(coll, t))]
    IN [total_documents |-> Cardinality(DOMAIN coll),
        by_entity_type |-> [k \in {t \in DOMAIN count : count[t] > 0} |-> count[k]]]

(***************************************************************************)
(* Sync strategies.                                                        *)
(***************************************************************************)
cutoff_date(clock) == clock - lookback_days

FullSyncStrategy_filter_entities(entities, existing_ids) == entities

FullSyncStrategy_should_delete_missing == TRUE

\* The comparison  mod_date > cutoff_date  for one lastModified value:
\* "keep", "drop", or "raise" when parsing or comparing raises.
\*   digits   : a str of digits, epoch milliseconds
\*   iso      : an ISO-8601 str without offset
\*   isoZ     : an ISO-8601 str ending in Z; parsed as an aware datetime,
\*              whose comparison with the naive cutoff raises TypeError
\*   datetime : a naive datetime object
\*   int      : a non-zero int; compared as it is, which raises TypeError
\*   garbage  : a str that is neither
\*   aware    : a datetime object with a tzinfo; its comparison raises too
CompareLastModified(last_modified, cutoff) ==
    IF last_modified.form \in {"digits", "iso", "datetime"}
    THEN IF last_modified.t > cutoff THEN "keep" ELSE "drop"
    ELSE "raise"

\* a filter that looks at the modification date only
IncrementalKeepsModifiedOnly(entity, existing_ids, entity_type, cutoff) ==
    /\ "lastModified" \in DOMAIN entity
    /\ entity.lastModified.form \notin {"empty", "zero"}
    /\ CompareLastModified(entity.lastModified, cutoff) \in {"keep", "raise"}

\* IncrementalSyncStrategy.filter_entities for one entity
IncrementalKeeps(entity, existing_ids, entity_type, cutoff) ==
    IF _generate_id(entity_type, entity) \notin existing_ids THEN TRUE
    ELSE IF "lastModified" \notin DOMAIN entity THEN FALSE
    ELSE IF entity.lastModified.form \in {"empty", "zero"} THEN FALSE
    ELSE CompareLastModified(entity.lastModified, cutoff) \in {"keep", "raise"}

IncrementalSyncStrategy_filter_entities(entities, existing_ids, entity_type, cutoff) ==
    SelectSeq(entities, LAMBDA e : IncrementalKeeps(e, existing_ids, entity_type, cutoff))

IncrementalSyncStrategy_should_delete_missing == FALSE

\* SmartSyncStrategy.__init__ defaults
priority_statuses == {"FAILED", "BROKEN"}
priority_issue_types == {"pb001", "ab001", "si001"}

\* a heuristic that looks at issue types and children only
SmartPriorityWithoutStatus(entity) ==
    \/ /\ "issue" \in DOMAIN entity
       /\ entity.issue.issueType \in priority_issue_types
    \/ /\ Get(entity, "hasChildren", FALSE)
       /\ "statistics" \in DOMAIN entity
       /\ entity.statistics.executions.failed > 0

\* the three heuristics of SmartSyncStrategy.filter_entities for one entity
SmartPriority(entity) ==
    \/ Get(entity, "status", "None") \in priority_statuses
    \/ /\ "issue" \in DOMAIN entity
       /\ entity.issue.issueType \in priority_issue_types
    \/ /\ Get(entity, "hasChildren", FALSE)
       /\ "statistics" \in DOMAIN entity
       /\ entity.statistics.executions.failed > 0

\* {id_generator(e) for e in filtered}
IdsOf(entities, entity_type) ==
    { _generate_id(entity_type, entities[i]) : i \in DOMAIN entities }

SmartSyncStrategy_filter_entities(entities, existing_ids, entity_type, cutoff) ==
    LET filtered == IncrementalSyncStrategy_filter_entities(
                        entities, existing_ids, entity_type, cutoff)
        kept_ids == IdsOf(filtered, entity_type)
        priority_entities ==
            SelectSeq(entities,
                      LAMBDA e : /\ _generate_id(entity_type, e) \notin kept_ids
                                 /\ SmartPriority(e))
    IN  filtered \o priority_entities

SmartSyncStrategy_should_delete_missing == FALSE

(***************************************************************************)
(* SyncOrchestrator: the calls each sync_* method makes when no call       *)
(* raises, in program order.  A call is recorded with its arguments and    *)
(* its response; an upsert_documents call responds with len(entities).     *)
(***************************************************************************)
ApiCall(op, args, resp) == [op |-> op, args |-> args, resp |-> resp, ok |-> TRUE]

UpsertCall(entity_type, entities, additional_metadata) ==
    [op |-> "upsert_documents",
     args |-> <<entity_type, entities, additional_metadata>>,
     resp |-> Len(entities), ok |-> TRUE]

TransformProject(project) ==
    [id |-> project.id, projectName |-> project.projectName,
     usersQuantity |-> 0, launchesQuantity |-> 0]

sync_projects ==
    LET projects == get_projects
    IN << ApiCall("get_projects", <<>>, projects),
          UpsertCall("project",
                     [i \in 1..Len(projects) |-> TransformProject(projects[i])],
                     EmptyMap) >>

RECURSIVE sync_users_from(_)
sync_users_from(page) ==
    LET response == get_users(page, settings.sync_batch_size)
    IN <<ApiCall("get_users", <<page, settings.sync_batch_size>>, response)>>
       \o (IF response.items # <<>>
           THEN <<UpsertCall("user", response.items, EmptyMap)>> ELSE <<>>)
       \o (IF ~has_next(response) THEN <<>> ELSE sync_users_from(page + 1))

sync_users == sync_users_from(0)

\* a page size that does not look at the cap
LogPageSizeUncapped(cap, total_synced) == settings.sync_batch_size

\* min(settings.sync_batch_size, max_logs - total_synced)
LogPageSize(cap, total_synced) == Min(settings.sync_batch_size, cap - total_synced)

RECURSIVE sync_logs_from(_, _, _, _, _)
sync_logs_from(project_name, item_id, cap, total_synced, page) ==
    IF ~(total_synced < cap) THEN <<>>
    ELSE
    LET size == LogPageSize(cap, total_synced)
        response == get_logs(project_name, item_id, page, size)
        important_logs ==
            SelectSeq(response.items,
                      LAMBDA log : Get(log, "level", "None") \in {"error", "warn", "fatal"})
        total == total_synced + Len(important_logs)
    IN <<ApiCall("get_logs", <<project_name, item_id, page, size>>, response)>>
       \o (IF important_logs # <<>>
           THEN <<UpsertCall("log", important_logs,
                             [project_name |-> project_name,
                              item_id |-> IntToStr(item_id)])>>
           ELSE <<>>)
       \o (IF ~has_next(response) \/ total >= cap THEN <<>>
           ELSE sync_logs_from(project_name, item_id, cap, total, page + 1))

sync_logs(project_name, item_id) == sync_logs_from(project_name, item_id, max_logs, 0, 0)

\* a test that asks for the logs of FAILED items only
NeedsLogsFailedOnly(item) == Get(item, "status", "None") = "FAILED"

\* if item.get("status") in ["FAILED", "BROKEN"]
NeedsLogs(item) == Get(item, "status", "None") \in {"FAILED", "BROKEN"}

RECURSIVE sync_test_items_from(_, _, _)
sync_test_items_from(project_name, launch_id, page) ==
    LET response == get_test_items(project_name, launch_id, page, settings.sync_batch_size)
        items == response.items
    IN <<ApiCall("get_test_items",
                 <<project_name, launch_id, page, settings.sync_batch_size>>, response)>>
       \o (IF items # <<>>
           THEN <<UpsertCall("test_item", items,
                             [project_name |-> project_name,
                              launch_id |-> IntToStr(launch_id)])>>
                \o Concat([i \in 1..Len(items) |->
                            IF NeedsLogs(items[i])
                            THEN sync_logs(project_name, items[i].id)
                            ELSE <<>>])
           ELSE <<>>)
       \o (IF ~has_next(response) THEN <<>>
           ELSE sync_test_items_from(project_name, launch_id, page + 1))

sync_test_items(project_name, launch_id) == sync_test_items_from(project_name, launch_id, 0)

\* a launch sync that requests every page of launches before it fetches the
\* test items of any launch
RECURSIVE sync_launches_pages_first(_, _, _)
sync_launches_pages_first(project_name, filters, page) ==
    LET response == get_launches(project_name, page, settings.sync_batch_size, filters)
        items == response.items
    IN <<ApiCall("get_launches",
                 <<project_name, page, settings.sync_batch_size, filters>>, response)>>
       \o (IF items # <<>>
           THEN <<UpsertCall("launch", items, [project_name |-> project_name])>>
           ELSE <<>>)
       \o (IF ~has_next(response) THEN <<>>
           ELSE sync_launches_pages_first(project_name, filters, page + 1))
       \o (IF items # <<>>
           THEN Concat([i \in 1..Len(items) |->
                            sync_test_items(project_name, items[i].id)])
           ELSE <<>>)

RECURSIVE sync_launches_from(_, _, _)
sync_launches_from(project_name, filters, page) ==
    LET response == get_launches(project_name, page, settings.sync_batch_size, filters)
        items == response.items
    IN <<ApiCall("get_launches",
                 <<project_name, page, settings.sync_batch_size, filters>>, response)>>
       \o (IF items # <<>>
           THEN <<UpsertCall("launch", items, [project_name |-> project_name])>>
                \o Concat([i \in 1..Len(items) |->
                            sync_test_items(project_name, items[i].id)])
           ELSE <<>>)
       \o (IF ~has_next(response) THEN <<>>
           ELSE sync_launches_from(project_name, filters, page + 1))

sync_launches(project_name, filters) == sync_launches_from(project_name, filters, 0)

RECURSIVE sync_filters_from(_, _)
sync_filters_from(project_name, page) ==
    LET response == get_filters(project_name, page, settings.sync_batch_size)
    IN <<ApiCall("get_filters", <<project_name, page, settings.sync_batch_size>>, response)>>
       \o (IF response.items # <<>>
           THEN <<UpsertCall("filter", response.items, [project_name |-> project_name])>>
           ELSE <<>>)
       \o (IF ~has_next(response) THEN <<>> ELSE sync_filters_from(project_name, page + 1))

sync_filters(project_name) == sync_filters_from(project_name, 0)

\* the get_widgets calls of one dashboard; a call for a widget in bad_widgets
\* raises and is caught on the spot
WidgetCalls(project_name, dashboard, bad_widgets) ==
    IF "widgets" \notin DOMAIN dashboard THEN <<>>
    ELSE [i \in 1..Len(dashboard.widgets) |->
            LET w == dashboard.widgets[i].widgetId
            IN IF w \in bad_widgets
               THEN [op |-> "get_widgets", args |-> <<project_name, w>>,
                     resp |-> <<>>, ok |-> FALSE]
               ELSE ApiCall("get_widgets", <<project_name, w>>,
                            get_widgets(project_name, w))]

\* an enrichment that keeps the details of a dashboard only when all of its
\* widgets were fetched
EnrichDashboardAllOrNothing(project_name, dashboard, bad_widgets) ==
    IF "widgets" \notin DOMAIN dashboard THEN dashboard
    ELSE LET all == WidgetCalls(project_name, dashboard, bad_widgets)
             got == IF \A i \in DOMAIN all : all[i].ok THEN all ELSE <<>>
         IN [k \in DOMAIN dashboard \cup {"widget_details"} |->
                IF k = "widget_details" THEN [i \in 1..Len(got) |-> got[i].resp]
                ELSE dashboard[k]]

EnrichDashboard(project_name, dashboard, bad_widgets) ==
    IF "widgets" \notin DOMAIN dashboard THEN dashboard
    ELSE LET got == SelectSeq(WidgetCalls(project_name, dashboard, bad_widgets),
                              LAMBDA c : c.ok)
         IN [k \in DOMAIN dashboard \cup {"widget_details"} |->
                IF k = "widget_details" THEN [i \in 1..Len(got) |-> got[i].resp]
                ELSE dashboard[k]]

RECURSIVE sync_dashboards_from(_, _, _)
sync_dashboards_from(project_name, bad_widgets, page) ==
    LET response == get_dashboards(project_name, page, settings.sync_batch_size)
        items == response.items
    IN <<ApiCall("get_dashboards",
                 <<project_name, page, settings.sync_batch_size>>, response)>>
       \o (IF items # <<>>
           THEN Concat([i \in 1..Len(items) |->
                          WidgetCalls(project_name, items[i], bad_widgets)])
                \o <<UpsertCall("dashboard",
                                [i \in 1..Len(items) |->
                                    EnrichDashboard(project_name, items[i], bad_widgets)],
                                [project_name |-> project_name])>>
           ELSE <<>>)
       \o (IF ~has_next(response) THEN <<>>
           ELSE sync_dashboards_from(project_name, bad_widgets, page + 1))

sync_dashboards(project_name, bad_widgets) ==
    sync_dashboards_from(project_name, bad_widgets, 0)

(***************************************************************************)
(* Running a sequence of calls against the collection.  The first call     *)
(* that raises ends the sequence: the exception unwinds every enclosing    *)
(* loop of the sync_* methods up to the try of sync().  (A get_widgets     *)
(* call that raised was caught inside sync_dashboards and ends nothing.)   *)
(* Each upsert is recorded with the ids its kind had before the call.      *)
(***************************************************************************)
Raise(call) == [call EXCEPT !.ok = FALSE, !.resp = <<>>]

\* the calls made when call number fail_at (0: none) raises
Executed(cs, fail_at) ==
    IF fail_at = 0 THEN cs
    ELSE SubSeq(cs, 1, fail_at - 1) \o <<Raise(cs[fail_at])>>

RECURSIVE RunCalls(_, _, _, _)
RunCalls(coll, cs, done, clock) ==
    IF cs = <<>> THEN [coll |-> coll, calls |-> done]
    ELSE LET c == Head(cs)
         IN IF c.op = "upsert_documents" /\ c.ok
            THEN RunCalls(upsert_documents(coll, c.args[1], c.args[2], c.args[3], clock),
                          Tail(cs),
                          Append(done,
                                 [op |-> c.op, args |-> c.args, resp |-> c.resp,
                                  ok |-> c.ok,
                                  before |-> get_existing_ids(coll, c.args[1])]),
                          clock)
            ELSE RunCalls(coll, Tail(cs), Append(done, c), clock)

\* the calls that can raise out of a sync_* method: for each operation, the
\* first call of it
Raising(cs) ==
    {i \in 1..Len(cs) :
        /\ cs[i].op # "get_widgets"
        /\ \A j \in 1..(i - 1) : cs[j].op # cs[i].op}

\* str(e) of the exception a call raises
Message(call) == call.op \o " failed"

\* total of the counts upsert_documents returned for a kind
RECURSIVE Synced(_, _)
Synced(cs, entity_type) ==
    IF cs = <<>> THEN 0
    ELSE (IF Head(cs).op = "upsert_documents" /\ Head(cs).args[1] = entity_type
          THEN Head(cs).resp ELSE 0) + Synced(Tail(cs), entity_type)

(***************************************************************************)
(* SyncOrchestrator.sync                                                   *)
(***************************************************************************)
\* Optional values: {} is None, {v} is v
None == {}
Some(v) == {v}
The(o) == CHOOSE v \in o : TRUE

IdleRun == [pc |-> "idle"]

\* the arguments of a sync() call
Request(sync_type, project_names, entity_types) ==
    Some([sync_type |-> sync_type, project_names |-> project_names,
          entity_types |-> entity_types])

\* the arguments of the current (or last) sync() call
Req == The(request)

\* the calls cs, each marked with the step of sync() that made it
During(cs, step) ==
    [i \in 1..Len(cs) |->
        [k \in DOMAIN cs[i] \cup {"during"} |->
            IF k = "during" THEN step ELSE cs[i][k]]]

Pending == [status |-> "pending"]
Raised(exc) == [status |-> "raised", exc |-> exc]
Returned(stats) == [status |-> "returned", stats |-> stats]

\* the body of one iteration of "for entity_type in entity_types" when no call raises
EntityCalls(entity_type, project_names, filters, bad_widgets) ==
    IF entity_type = "project" THEN sync_projects
    ELSE IF entity_type = "user" THEN sync_users
    ELSE IF entity_type = "launch"
    THEN Concat([i \in 1..Len(project_names) |-> sync_launches(project_names[i], filters)])
    ELSE IF entity_type = "filter"
    THEN Concat([i \in 1..Len(project_names) |-> sync_filters(project_names[i])])
    ELSE IF entity_type = "dashboard"
    THEN Concat([i \in 1..Len(project_names) |->
                    sync_dashboards(project_names[i], bad_widgets)])
    ELSE <<>>

\* every kind reports a count
CountedAll ==
    {"project", "user", "launch", "test_item", "log", "filter", "dashboard"}

\* the kinds whose branch of the loop assigns entity_stats[entity_type]
Counted == {"project", "user", "launch", "filter", "dashboard"}

\* an error entry that does not name the kind
ErrorEntryUnnamed(entity_type, message) == <<"sync", ": ", message>>

\* errors.append(f"{entity_type}: {str(e)}")
ErrorEntry(entity_type, message) == <<entity_type, ": ", message>>

\* lines 46-53 without the feature flags
RejectionUnchecked(sync_type) ==
    IF sync_type \notin {"full", "incremental"} THEN "ValueError" ELSE ""

\* lines 46-53: the exception the validation of sync_type raises, "" if none
Rejection(sync_type) ==
    IF sync_type \notin {"full", "incremental"} THEN "ValueError"
    ELSE IF sync_type = "full" /\ ~settings.enable_full_sync THEN "SyncError"
    ELSE IF sync_type = "incremental" /\ ~settings.enable_incremental_sync THEN "SyncError"
    ELSE ""

\* lines 73-78: what constructing the strategy can do, "" for success.
\* IncrementalSyncStrategy() is called as its constructor is declared.
\* FullSyncStrategy(self.api_client, self.storage_client) passes two
\* arguments; the module the orchestrator imports the class from is not
\* part of the sources, and the FullSyncStrategy of reportportal_ai declares
\* no constructor, so that the call raises TypeError.  Both are possible.
StrategyOutcomes(sync_type) ==
    IF sync_type = "full" THEN {"", "TypeError"} ELSE {""}

\* the filters argument sync() passes to sync_launches
LaunchFilters(sync_type, clock) ==
    IF sync_type = "incremental" THEN <<cutoff_date(clock)>> ELSE <<>>

SyncTypes == {"full", "incremental", "smart"}
\* the (project_names, entity_types) arguments sync() is called with
SyncArgs ==
    { <<None, None>>,
      <<None, Some(<<"project">>)>>,
      <<Some(<<"p1">>), Some(<<"project", "launch">>)>>,
      <<Some(<<"p1">>), Some(<<"test_item", "log">>)>> }
WidgetIds == {1, 2, 3}

\* a sync() that catches a failed project discovery and returns it as an
\* error of kind project
SyncRaiseCaught(sync_type, project_names, entity_types) ==
    /\ run.pc = "idle"
    /\ outcome.status = "none"
    /\ Rejection(sync_type) = ""
    /\ project_names = None
    /\ spent.faults < MaxFaults
    /\ spent' = [spent EXCEPT !.faults = @ + 1]
    /\ calls' = During(<<Raise(ApiCall("get_projects", <<>>, get_projects))>>,
                       "discovery")
    /\ outcome' = Returned([entity_stats |-> EmptyMap, duration_seconds |-> 0,
                            errors |-> <<ErrorEntry("project", "get_projects failed")>>])
    /\ request' = Request(sync_type, project_names, entity_types)
    /\ UNCHANGED <<probe, up_logs, settings, up_launches, up_items, storage,
                   sync_metadata, now, run, last_returned, previous_run>>

\* sync() raises before the loop over the entity types: a rejected mode, a
\* strategy that cannot be constructed, or a failed project discovery
SyncRaise(sync_type, project_names, entity_types) ==
    /\ run.pc = "idle"
    /\ outcome.status = "none"
    /\ \/ /\ Rejection(sync_type) # ""
          /\ outcome' = Raised(Rejection(sync_type))
          /\ calls' = <<>>
          /\ UNCHANGED spent
       \/ /\ Rejection(sync_type) = ""
          /\ \E exc \in StrategyOutcomes(sync_type) \ {""} :
                outcome' = Raised(exc)
          /\ calls' = <<>>
          /\ UNCHANGED spent
       \/ /\ Rejection(sync_type) = ""
          /\ "" \in StrategyOutcomes(sync_type)
          /\ project_names = None
          /\ spent.faults < MaxFaults
          /\ outcome' = Raised("APIError")
          /\ calls' = During(<<Raise(ApiCall("get_projects", <<>>, get_projects))>>,
                             "discovery")
          /\ spent' = [spent EXCEPT !.faults = @ + 1]
    /\ request' = Request(sync_type, project_names, entity_types)
    /\ UNCHANGED <<probe, up_logs, settings, up_launches, up_items, storage,
                   sync_metadata, now, run, last_returned, previous_run>>

\* sync() up to the loop: defaults, strategy, start time, project discovery
SyncStart(sync_type, project_names, entity_types) ==
    /\ run.pc = "idle"
    /\ outcome.status = "none"
    /\ Rejection(sync_type) = ""
    /\ "" \in StrategyOutcomes(sync_type)
    /\ spent.syncs < MaxSyncs
    /\ spent' = [spent EXCEPT !.syncs = @ + 1]
    /\ run' = [pc |-> "loop",
               sync_type |-> sync_type,
               entity_types |-> IF entity_types = None THEN AllEntityTypes
                                ELSE The(entity_types),
               project_names |->
                    IF project_names = None
                    THEN [i \in 1..Len(get_projects) |->
                            Get(get_projects[i], "projectName", "None")]
                    ELSE The(project_names),
               filters |-> LaunchFilters(sync_type, now),
               start_time |-> now,
               idx |-> 1,
               entity_stats |-> EmptyMap,
               errors |-> <<>>]
    /\ calls' = IF project_names = None
                THEN During(<<ApiCall("get_projects", <<>>, get_projects)>>, "discovery")
                ELSE <<>>
    /\ request' = Request(sync_type, project_names, entity_types)
    /\ outcome' = Pending
    /\ UNCHANGED <<probe, up_logs, settings, up_launches, up_items, storage,
                   sync_metadata, now, last_returned, previous_run>>

\* the calls of the iteration at run.idx when none raises out of it;
\* bad_widgets: the widgets whose fetch raises (and is caught on the spot)
IterationCalls(frame, bad_widgets) ==
    EntityCalls(frame.entity_types[frame.idx], frame.project_names, frame.filters,
                bad_widgets)

Caught(cs) == Cardinality({i \in 1..Len(cs) : ~cs[i].ok})

\* the call numbers that may raise out of the iteration (0: none does)
FailChoices(frame, bad_widgets, faults) ==
    LET cs == IterationCalls(frame, bad_widgets)
    IN IF faults + Caught(cs) > MaxFaults THEN {}
       ELSE IF faults + Caught(cs) = MaxFaults THEN {0}
       ELSE {0} \cup Raising(cs)

\* one iteration of the loop over entity_types, with its try / except, as
\* the collection, the calls and the frame it leaves
Iteration(frame, coll, bad_widgets, fail_at, clock) ==
    LET entity_type == frame.entity_types[frame.idx]
        cs == IterationCalls(frame, bad_widgets)
        r == RunCalls(coll, Executed(cs, fail_at), <<>>, clock)
    IN [coll |-> r.coll,
        calls |-> During(r.calls, entity_type),
        faults |-> Caught(cs) + (IF fail_at = 0 THEN 0 ELSE 1),
        frame |-> [frame EXCEPT
            !.idx = @ + 1,
            !.entity_stats =
                IF fail_at = 0 /\ entity_type \in Counted
                THEN [k \in DOMAIN @ \cup {entity_type} |->
                        IF k = entity_type THEN Synced(cs, entity_type) ELSE @[k]]
                ELSE @,
            !.errors =
                IF fail_at = 0 THEN @
                ELSE Append(@, ErrorEntry(entity_type, Message(cs[fail_at])))]]

SyncEntity(bad_widgets) ==
    /\ run.pc = "loop"
    /\ run.idx <= Len(run.entity_types)
    /\ \E fail_at \in FailChoices(run, bad_widgets, spent.faults) :
        \E it \in {Iteration(run, storage, bad_widgets, fail_at, now)} :
            /\ storage' = it.coll
            /\ calls' = calls \o it.calls
            /\ run' = it.frame
            /\ spent' = [spent EXCEPT !.faults = @ + it.faults]
    /\ UNCHANGED <<probe, up_logs, settings, up_launches, up_items,
                   sync_metadata, now, request, outcome, last_returned, previous_run>>

\* id -> source record of the documents of a collection
SourceMap(coll) == [i \in DOMAIN coll |-> coll[i]._entity_data]

\* what is remembered of a sync() call when it returns: its arguments, the
\* number of its calls that raised, the upstream it ran against, the source
\* records it left in the store and those the call before it had left, and
\* whether it repeats the call before it (same arguments, same upstream,
\* no call raised in either)
RunSnapshot ==
    LET raised == Cardinality({i \in 1..Len(calls) : ~calls[i].ok})
    IN [request |-> Req,
        raised |-> raised,
        upstream |-> <<up_launches, up_items>>,
        sources |-> SourceMap(storage),
        earlier |-> IF previous_run = None THEN None
                    ELSE Some(The(previous_run).sources),
        repeats |-> /\ previous_run # None
                    /\ The(previous_run).request = Req
                    /\ The(previous_run).upstream = <<up_launches, up_items>>
                    /\ The(previous_run).raised = 0
                    /\ raised = 0]

\* a return that records the start of the run as its last_sync
SyncReturnStartTime ==
    /\ run.pc = "loop"
    /\ run.idx > Len(run.entity_types)
    /\ sync_metadata' = [last_sync |-> IsoFormat(run.start_time),
                         sync_type |-> run.sync_type]
    /\ outcome' = Returned([entity_stats |-> run.entity_stats,
                            duration_seconds |-> now - run.start_time,
                            errors |-> run.errors])
    /\ last_returned' = Some([time |-> now, mode |-> Req.sync_type])
    /\ previous_run' = Some(RunSnapshot)
    /\ run' = IdleRun
    /\ UNCHANGED <<probe, up_logs, settings, up_launches, up_items, storage,
                   now, request, calls, spent>>

\* lines 142-159: duration, _sync_metadata, the returned stats
SyncReturn ==
    /\ run.pc = "loop"
    /\ run.idx > Len(run.entity_types)
    /\ sync_metadata' = [last_sync |-> IsoFormat(now), sync_type |-> run.sync_type]
    /\ outcome' = Returned([entity_stats |-> run.entity_stats,
                            duration_seconds |-> now - run.start_time,
                            errors |-> run.errors])
    /\ last_returned' = Some([time |-> now, mode |-> Req.sync_type])
    /\ previous_run' = Some(RunSnapshot)
    /\ run' = IdleRun
    /\ UNCHANGED <<probe, up_logs, settings, up_launches, up_items, storage,
                   now, request, calls, spent>>

get_sync_status ==
    [storage_stats |-> get_statistics(storage),
     last_sync |-> IF "last_sync" \in DOMAIN sync_metadata
                   THEN Some(sync_metadata.last_sync) ELSE None,
     sync_type |-> IF "sync_type" \in DOMAIN sync_metadata
                   THEN Some(sync_metadata.sync_type) ELSE None]

(***************************************************************************)
(* The environment: the clock, and the upstream between two sync() calls.  *)
(***************************************************************************)
Tick ==
    /\ run.pc = "loop"
    /\ run.idx > Len(run.entity_types)
    /\ now < Epoch + MaxTicks
    /\ now' = now + 1
    /\ UNCHANGED <<probe, up_logs, settings, up_launches, up_items, storage,
                   sync_metadata, run, request, calls, outcome, last_returned, previous_run, spent>>

\* the caller has taken the result of the last sync() call; the next call
\* can be made
Forget ==
    /\ run.pc = "idle"
    /\ outcome.status \in {"returned", "raised"}
    /\ outcome' = [status |-> "none"]
    /\ calls' = <<>>
    /\ request' = None
    /\ UNCHANGED <<probe, up_logs, settings, up_launches, up_items, storage,
                   sync_metadata, now, run, last_returned, previous_run, spent>>

\* launches are created before the first sync() call, and deleted at any
\* time between two calls
UpstreamAddLaunch(l, stamp, items) ==
    /\ run.pc = "idle"
    /\ outcome.status = "none"
    /\ spent.syncs = 0
    /\ l \notin DOMAIN up_launches
    /\ up_launches' = [k \in DOMAIN up_launches \cup {l} |->
                        IF k = l THEN LaunchRecord(l, stamp) ELSE up_launches[k]]
    /\ up_items' = [k \in DOMAIN up_items \cup {l} |->
                        IF k = l THEN items ELSE up_items[k]]
    /\ UNCHANGED <<probe, up_logs, settings, storage, sync_metadata, now, run,
                   request, calls, outcome, last_returned, previous_run, spent>>

UpstreamDeleteLaunch(l) ==
    /\ run.pc = "idle"
    /\ outcome.status = "none"
    /\ l \in DOMAIN up_launches
    /\ up_launches' = [k \in DOMAIN up_launches \ {l} |-> up_launches[k]]
    /\ up_items' = [k \in DOMAIN up_items \ {l} |-> up_items[k]]
    /\ UNCHANGED <<probe, up_logs, settings, storage, sync_metadata, now, run,
                   request, calls, outcome, last_returned, previous_run, spent>>

ItemsChoices(l) == {<<>>} \cup {<<ItemRecord(l, s)>> : s \in ItemStatuses}

\* no function call outside sync() is being looked at
NoProbe == [op |-> "none"]

Init ==
    /\ settings \in [enable_full_sync : BOOLEAN, enable_incremental_sync : BOOLEAN,
                     sync_batch_size : {BatchSize}]
    /\ up_launches = EmptyMap
    /\ up_items = EmptyMap
    /\ up_logs = <<"error", "info", "warn">>
    /\ storage = EmptyMap
    /\ sync_metadata = EmptyMap
    /\ now = Epoch
    /\ run = IdleRun
    /\ request = None
    /\ calls = <<>>
    /\ outcome = [status |-> "none"]
    /\ last_returned = None
    /\ previous_run = None
    /\ spent = [syncs |-> 0, faults |-> 0]
    /\ probe = NoProbe

Next ==
    \/ \E st \in SyncTypes, args \in SyncArgs : SyncRaise(st, args[1], args[2])
    \/ \E st \in SyncTypes, args \in SyncArgs : SyncStart(st, args[1], args[2])
    \/ \E bad \in SUBSET WidgetIds : SyncEntity(bad)
    \/ SyncReturn
    \/ Forget
    \/ Tick
    \/ \E l \in LaunchIds, stamp \in LaunchStamps :
            \E items \in ItemsChoices(l) : UpstreamAddLaunch(l, stamp, items)
    \/ \E l \in LaunchIds : UpstreamDeleteLaunch(l)

Spec == Init /\ [][Next]_vars

(***************************************************************************)
(* Calls of the functions that sync() does not reach.  Each specification  *)
(* below leaves the orchestrator idle and looks at one call: probe holds   *)
(* its arguments, and its result once the call has returned.               *)
(***************************************************************************)
sync_vars == <<settings, up_launches, up_items, up_logs, storage,
               sync_metadata, now, run, request, calls, outcome, last_returned,
               previous_run, spent>>

SyncIdle ==
    /\ settings = [enable_full_sync |-> TRUE, enable_incremental_sync |-> TRUE,
                   sync_batch_size |-> BatchSize]
    /\ up_launches = EmptyMap
    /\ up_items = EmptyMap
    /\ up_logs = <<"error", "info", "warn">>
    /\ storage = EmptyMap
    /\ sync_metadata = EmptyMap
    /\ now = Epoch
    /\ run = IdleRun
    /\ request = None
    /\ calls = <<>>
    /\ outcome = [status |-> "none"]
    /\ last_returned = None
    /\ previous_run = None
    /\ spent = [syncs |-> 0, faults |-> 0]

SeqsUpTo(S, n) == UNION { [1..k -> S] : k \in 0..n }

(***************************************************************************)
(* filter_entities of the incremental and the smart strategy.  The         *)
(* entities are launches; a lastModified is old, at or after the cutoff    *)
(* in each of its forms, or missing, empty or unparsable.                  *)
(***************************************************************************)
CandidateIds == {1, 2}

LastModifiedValues(cutoff) ==
    { [form |-> f, t |-> t] : f \in {"digits", "iso", "isoZ", "datetime", "aware"},
                              t \in {cutoff - 1, cutoff + 1} }
    \cup { [form |-> "digits", t |-> cutoff],
           [form |-> "garbage", t |-> 0],
           [form |-> "empty", t |-> 0] }

IncrementalCandidates(cutoff) ==
    { [id |-> i] : i \in CandidateIds }
    \cup { [id |-> i, lastModified |-> m] :
                i \in CandidateIds, m \in LastModifiedValues(cutoff) }

SmartFeatures ==
    { [status |-> "PASSED"], [status |-> "FAILED"], [status |-> "BROKEN"],
      [status |-> "PASSED", issue |-> [issueType |-> "pb001"]],
      [status |-> "PASSED", issue |-> [issueType |-> "ti001"]],
      [hasChildren |-> TRUE, statistics |-> [executions |-> [failed |-> 1]]],
      [hasChildren |-> TRUE, statistics |-> [executions |-> [failed |-> 0]]] }

SmartCandidates(cutoff) ==
    { Update(base, feature) :
        base \in { [id |-> i, lastModified |-> [form |-> "digits", t |-> t]] :
                        i \in CandidateIds, t \in {cutoff - 1, cutoff + 1} },
        feature \in SmartFeatures }

FilterProbes ==
    LET cutoff == cutoff_date(Epoch)
        ids == { _generate_id("launch", [id |-> i]) : i \in CandidateIds }
    IN  { [op |-> "filter_entities", strategy |-> "incremental", entity_type |-> "launch",
           entities |-> es, existing_ids |-> ex, cutoff_date |-> cutoff, result |-> None] :
              es \in SeqsUpTo(IncrementalCandidates(cutoff), MaxCandidates),
              ex \in SUBSET ids }
        \cup
        { [op |-> "filter_entities", strategy |-> "smart", entity_type |-> "launch",
           entities |-> es, existing_ids |-> ex, cutoff_date |-> cutoff, result |-> None] :
              es \in SeqsUpTo(SmartCandidates(cutoff), MaxCandidates),
              ex \in SUBSET ids }

FilterInit == SyncIdle /\ probe \in FilterProbes

IncrementalFilter ==
    /\ probe.op = "filter_entities"
    /\ probe.strategy = "incremental"
    /\ probe.result = None
    /\ probe' = [probe EXCEPT !.result =
                    Some(IncrementalSyncStrategy_filter_entities(
                            probe.entities, probe.existing_ids,
                            probe.entity_type, probe.cutoff_date))]
    /\ UNCHANGED sync_vars

SmartFilter ==
    /\ probe.op = "filter_entities"
    /\ probe.strategy = "smart"
    /\ probe.result = None
    /\ probe' = [probe EXCEPT !.result =
                    Some(SmartSyncStrategy_filter_entities(
                            probe.entities, probe.existing_ids,
                            probe.entity_type, probe.cutoff_date))]
    /\ UNCHANGED sync_vars

FilterNext == IncrementalFilter \/ SmartFilter

FilterSpec == FilterInit /\ [][FilterNext]_vars

(***************************************************************************)
(* Properties.                                                             *)
(***************************************************************************)
\* the entity kinds the current (or last) sync() call iterates over
RequestedKinds ==
    IF Req.entity_types = None THEN AllEntityTypes ELSE The(Req.entity_types)

\* the calls that raised out of a sync_* method, in order
FailedCalls == SelectSeq(calls, LAMBDA c : ~c.ok /\ c.op # "get_widgets")

\* the kinds whose iteration made at least one call
KindsWithCalls == {calls[i].during : i \in 1..Len(calls)}

\* C1: an exception raised while syncing one kind is caught: once the loop
\* over the kinds is entered sync() does not raise; the returned error list
\* has, in order, one entry per call that raised, naming the kind whose
\* iteration made the call and the message; and every kind of the request
\* that stores documents was still processed (it made its calls, and has
\* either a count or an error entry).
C1_ErrorsAreIsolated ==
    /\ [](outcome.status = "returned" =>
            LET errs == outcome.stats.errors
                failed == FailedCalls
            IN /\ Len(errs) = Len(failed)
               /\ \A i \in 1..Len(errs) :
                    errs[i] = <<failed[i].during, ": ", failed[i].op \o " failed">>
               /\ \A i \in 1..Len(RequestedKinds) :
                    LET k == RequestedKinds[i]
                    IN k \in Counted =>
                        /\ k \in KindsWithCalls
                        /\ \/ k \in DOMAIN outcome.stats.entity_stats
                           \/ \E j \in 1..Len(errs) : errs[j][1] = k)
    /\ [][run.pc = "loop" => outcome'.status \in {"pending", "returned"}]_vars

\* a run returned although its first kind raised, with a count for a later kind
C1_Witness ==
    /\ outcome.status = "returned"
    /\ Len(outcome.stats.errors) = 1
    /\ outcome.stats.errors[1][1] = "project"
    /\ "user" \in DOMAIN outcome.stats.entity_stats
    /\ "dashboard" \in DOMAIN outcome.stats.entity_stats

\* a run over all seven kinds has returned, and the calls that raised in it
\* are fetches of logs (at least one)
LogFetchRaised ==
    /\ outcome.status = "returned"
    /\ Req.entity_types = None
    /\ FailedCalls # <<>>
    /\ \A i \in 1..Len(FailedCalls) : FailedCalls[i].op = "get_logs"

\* C2 (as stated): a run over all kinds in which get_logs raises returns
\* counts for all other kinds and exactly one error entry, attributed to
\* kind log.
C2_AsStated ==
    LogFetchRaised =>
        /\ Len(outcome.stats.errors) = 1
        /\ outcome.stats.errors[1][1] = "log"
        /\ DOMAIN outcome.stats.entity_stats =
                {"project", "user", "launch", "test_item", "filter", "dashboard"}

\* C2 (amended): a run over all kinds in which get_logs raises still
\* returns, with exactly one error entry; the entry is attributed to kind
\* launch, whose iteration makes the nested fetch, and carries the message;
\* counts are returned for project, user, filter and dashboard only.
C2_LogFailureIsLaunchFailure ==
    LogFetchRaised =>
        /\ Len(outcome.stats.errors) = 1
        /\ outcome.stats.errors[1] = <<"launch", ": ", "get_logs failed">>
        /\ DOMAIN outcome.stats.entity_stats = {"project", "user", "filter", "dashboard"}

C2_Witness ==
    /\ LogFetchRaised
    /\ \E i \in 1..Len(calls) : calls[i].op = "get_dashboards" /\ calls[i].ok

\* the project discovery of the current (or last) sync() call raised
DiscoveryFailed ==
    /\ calls # <<>>
    /\ calls[1].during = "discovery"
    /\ ~calls[1].ok

C4_AsStated ==
    ( /\ request # None
      /\ Req = [sync_type |-> "full", project_names |-> None,
                entity_types |-> Some(<<"project">>)]
      /\ outcome.status \in {"returned", "raised"}
      /\ \E i \in 1..Len(calls) : calls[i].op = "get_projects" /\ ~calls[i].ok )
    => /\ outcome.status = "returned"
       /\ outcome.stats.errors # <<>>
       /\ outcome.stats.errors[1][1] = "project"

\* the mode of the current (or last) sync() call is switched off
FlagDisabled ==
    /\ request # None
    /\ \/ Req.sync_type = "full" /\ ~settings.enable_full_sync
       \/ Req.sync_type = "incremental" /\ ~settings.enable_incremental_sync

\* C5: sync(mode) with the feature flag of the mode disabled raises
\* SyncError before any API or storage call is made, and leaves the store
\* and the recorded last-sync time and mode unchanged.
C5_DisabledModeIsRejected ==
    /\ [](FlagDisabled =>
            /\ outcome = [status |-> "raised", exc |-> "SyncError"]
            /\ calls = <<>>
            /\ run.pc = "idle")
    /\ [][FlagDisabled' => UNCHANGED <<storage, sync_metadata>>]_vars

\* a disabled mode was rejected after a run of the other mode was recorded
C5_Witness ==
    /\ FlagDisabled
    /\ outcome.status = "raised"
    /\ "last_sync" \in DOMAIN sync_metadata

\* C6: get_sync_status() reports the time and the mode of the most recent
\* sync() call that returned a result, None for both if none has, and a
\* sync() call that raises leaves the record they are read from as it was.
C6_StatusIsLastReturnedRun ==
    /\ [](LET status == get_sync_status
           IN IF last_returned = None
              THEN /\ status.last_sync = None
                   /\ status.sync_type = None
              ELSE /\ status.last_sync = Some(<<"isoformat", The(last_returned).time>>)
                   /\ status.sync_type = Some(The(last_returned).mode))
    /\ [][outcome'.status = "raised" => sync_metadata' = sync_metadata]_vars

\* two runs returned, the second one later, in another mode and with an
\* error; then a sync() call raised
C6_Witness ==
    /\ outcome.status = "raised"
    /\ spent.syncs = 2
    /\ spent.faults = 1
    /\ last_returned = Some([time |-> Epoch + 1, mode |-> "incremental"])
    /\ get_sync_status.sync_type = Some("incremental")

\* C7 (as stated): the result a full sync with project names given and
\* kinds [project, launch] returns reports sync_type full together with
\* start_time, end_time, duration_seconds and entity_stats.
C7_AsStated ==
    ( /\ request # None
      /\ Req = [sync_type |-> "full", project_names |-> Some(<<"p1">>),
                entity_types |-> Some(<<"project", "launch">>)]
      /\ outcome.status = "returned" )
    => /\ {"sync_type", "start_time", "end_time", "duration_seconds", "entity_stats"}
            \subseteq DOMAIN outcome.stats
       /\ outcome.stats.sync_type = "full"

\* C8 (as stated): in incremental mode every launch that is upserted passes
\* the per-record filter of the strategy: none has a document id that was
\* already stored together with a modification time not after the cutoff
\* (the cutoff is the one passed to the get_launches call just before).
C8_AsStated ==
    \A i \in 2..Len(calls) :
        ( /\ Req.sync_type = "incremental"
          /\ calls[i].op = "upsert_documents"
          /\ calls[i].ok
          /\ calls[i].args[1] = "launch" )
        => \A j \in 1..Len(calls[i].args[2]) :
                IncrementalKeeps(calls[i].args[2][j], calls[i].before, "launch",
                                 calls[i - 1].args[4][1])

\* the projects of the current (or last) sync() call
RunProjects ==
    IF Req.project_names = None
    THEN {UpstreamProjects[i].projectName : i \in 1..Len(UpstreamProjects)}
    ELSE {The(Req.project_names)[i] : i \in 1..Len(The(Req.project_names))}

\* the document ids of the launches the current (or last) sync() call pulled
PulledLaunchIds ==
    UNION { {_generate_id("launch", calls[i].resp.items[j]) :
                j \in 1..Len(calls[i].resp.items)} :
            i \in {k \in 1..Len(calls) : calls[k].op = "get_launches" /\ calls[k].ok} }

\* C9 (as stated): after a full-mode run has finished the kind launch
\* without error, the store holds no launch document of the projects of
\* the run whose launch was absent from the pull of that run.
C9_AsStated ==
    ( /\ request # None
      /\ Req.sync_type = "full"
      /\ outcome.status = "returned"
      /\ "launch" \in DOMAIN outcome.stats.entity_stats )
    => \A id \in get_existing_ids(storage, "launch") :
            storage[id].project_name \in RunProjects => id \in PulledLaunchIds

\* C10: when a sync() call that returned repeats the one before it (same
\* arguments, upstream unchanged in between, no call raised in either),
\* the store holds the same document ids, each with the same source record,
\* as after the first of the two.
C10_RepeatedRunConverges ==
    ( /\ outcome.status = "returned"
      /\ previous_run # None
      /\ The(previous_run).repeats )
    => SourceMap(storage) = The(The(previous_run).earlier)

\* a run over all kinds was repeated a day later on an upstream with a
\* launch, a failed item and its logs; the documents were written again
C10_Witness ==
    /\ outcome.status = "returned"
    /\ previous_run # None
    /\ The(previous_run).repeats
    /\ Req.entity_types = None
    /\ get_existing_ids(storage, "log") # {}
    /\ \E id \in DOMAIN storage : storage[id].created_at = IsoFormat(Epoch + 1)

(***************************************************************************)
(* PaginatedResponse.has_next for a response built directly.               *)
(***************************************************************************)
PageProbes ==
    { [op |-> "has_next",
       response |-> PaginatedResponse(<<>>, total, page, size),
       result |-> None] :
          total \in 0..MaxTotal, page \in 0..MaxPage, size \in 0..MaxSize }

PageInit == SyncIdle /\ probe \in PageProbes

HasNext ==
    /\ probe.op = "has_next"
    /\ probe.result = None
    /\ probe' = [probe EXCEPT !.result = Some(has_next(probe.response))]
    /\ UNCHANGED sync_vars

PageNext == HasNext

PageSpec == PageInit /\ [][PageNext]_vars

(***************************************************************************)
(* ChromaDBClient._generate_id for two records of one kind.  A record has  *)
(* an integer id, a userId and a projectName, or lacks any of them.        *)
(***************************************************************************)
IdKinds == {"launch", "test_item", "log", "user", "project", "filter", "dashboard"}

IdRecords ==
    { Update(Update(a, b), c) :
        a \in {EmptyMap} \cup { [id |-> i] : i \in {1, 12, 123} },
        b \in {EmptyMap} \cup { [userId |-> u] : u \in {"1", "testuser"} },
        c \in {EmptyMap} \cup { [projectName |-> n] : n \in {"None", "test-proj"} } }

IdProbes ==
    { [op |-> "_generate_id", entity_type |-> k, first |-> a, second |-> b,
       result |-> None] : k \in IdKinds, a \in IdRecords, b \in IdRecords }

IdInit == SyncIdle /\ probe \in IdProbes

GenerateIds ==
    /\ probe.op = "_generate_id"
    /\ probe.result = None
    /\ probe' = [probe EXCEPT !.result =
                    Some(<<_generate_id(probe.entity_type, probe.first),
                           _generate_id(probe.entity_type, probe.second)>>)]
    /\ UNCHANGED sync_vars

IdNext == GenerateIds

IdSpec == IdInit /\ [][IdNext]_vars

(***************************************************************************)
(* QueryProcessor (reportportal_ai/llm/query_processor).  A question is a  *)
(* str; `keyword in query` is the substring test, query.lower() maps the   *)
(* capital letters to small ones.                                          *)
(***************************************************************************)
CapitalLetters == "ABCDEFGHIJKLMNOPQRSTUVWXYZ"
SmallLetters == "abcdefghijklmnopqrstuvwxyz"
DigitChars == "0123456789"

CharAt(text, i) == SubSeq(text, i, i)

\* word in text
Contains(text, word) ==
    \E i \in 1..(Len(text) - Len(word) + 1) : SubSeq(text, i, i + Len(word) - 1) = word

LowerChar(c) ==
    IF Contains(CapitalLetters, c)
    THEN CharAt(SmallLetters, CHOOSE i \in 1..Len(CapitalLetters) : CharAt(CapitalLetters, i) = c)
    ELSE c

\* str.lower()
RECURSIVE Lower(_)
Lower(text) ==
    IF text = "" THEN ""
    ELSE LowerChar(CharAt(text, 1)) \o Lower(SubSeq(text, 2, Len(text)))

\* any(word in query for word in words)
AnyIn(words, query) == \E i \in DOMAIN words : Contains(query, words[i])

\* an intent detection that looks for the analysis words first
_detect_intent_analysis_first(query) ==
    IF AnyIn(<<"why", "root cause", "reason">>, query) THEN "analysis"
    ELSE IF AnyIn(<<"how many", "count", "number of", "total">>, query) THEN "count"
    ELSE IF AnyIn(<<"trend", "over time", "history">>, query) THEN "trend"
    ELSE IF AnyIn(<<"compare", "difference", "vs">>, query) THEN "comparison"
    ELSE IF AnyIn(<<"show", "list", "find", "get">>, query) THEN "search"
    ELSE "general"

_detect_intent(query) ==
    IF AnyIn(<<"how many", "count", "number of", "total">>, query) THEN "count"
    ELSE IF AnyIn(<<"why", "root cause", "reason">>, query) THEN "analysis"
    ELSE IF AnyIn(<<"trend", "over time", "history">>, query) THEN "trend"
    ELSE IF AnyIn(<<"compare", "difference", "vs">>, query) THEN "comparison"
    ELSE IF AnyIn(<<"show", "list", "find", "get">>, query) THEN "search"
    ELSE "general"

\* self.entity_keywords, in the order of the dict, with the type each key appends
entity_keywords ==
    << [key |-> "launch", keywords |-> <<"launch", "run", "execution", "build">>,
        detected |-> "launch"],
       [key |-> "test", keywords |-> <<"test", "case", "scenario", "spec">>,
        detected |-> "test_item"],
       [key |-> "log", keywords |-> <<"log", "error", "exception", "stacktrace">>,
        detected |-> "log"],
       [key |-> "dashboard", keywords |-> <<"dashboard", "widget", "chart">>,
        detected |-> "dashboard"],
       [key |-> "filter", keywords |-> <<"filter", "saved search">>,
        detected |-> "filter"] >>

RECURSIVE DetectedFrom(_, _)
DetectedFrom(table, query) ==
    IF table = <<>> THEN <<>>
    ELSE (IF AnyIn(Head(table).keywords, query) THEN <<Head(table).detected>> ELSE <<>>)
         \o DetectedFrom(Tail(table), query)

\* an entity type detection that stops at the first table entry that matches
_detect_entity_types_first_match(query) ==
    LET detected == DetectedFrom(entity_keywords, query)
    IN  IF detected = <<>> THEN <<"launch", "test_item">> ELSE <<Head(detected)>>

_detect_entity_types(query) ==
    LET detected == DetectedFrom(entity_keywords, query)
    IN  IF detected = <<>> THEN <<"launch", "test_item">> ELSE detected

\* self.status_keywords, in the order of the dict
status_keywords ==
    << [keyword |-> "failed", statuses |-> <<"FAILED">>],
       [keyword |-> "broken", statuses |-> <<"BROKEN">>],
       [keyword |-> "passed", statuses |-> <<"PASSED">>],
       [keyword |-> "skipped", statuses |-> <<"SKIPPED">>],
       [keyword |-> "error", statuses |-> <<"FAILED", "BROKEN">>],
       [keyword |-> "success", statuses |-> <<"PASSED">>] >>

\* the statuses of the keywords found: set(statuses)
StatusesIn(query) ==
    UNION { { status_keywords[i].statuses[j] : j \in DOMAIN status_keywords[i].statuses } :
                i \in { k \in DOMAIN status_keywords : Contains(query, status_keywords[k].keyword) } }

\* the lists a set can be turned into: list(set(...)) fixes no order
ListsOf(S) ==
    { l \in [1..Cardinality(S) -> S] : \A i, j \in DOMAIN l : i # j => l[i] # l[j] }

\* _extract_status_filter: each value it can return
_extract_status_filter(query) ==
    IF StatusesIn(query) = {} THEN {None}
    ELSE { Some(l) : l \in ListsOf(StatusesIn(query)) }

metrics_keywords ==
    <<"percentage", "rate", "ratio", "average", "mean", "median",
      "statistics", "stats", "metrics", "performance", "success rate",
      "failure rate", "pass rate", "distribution">>

_detect_metrics_request(query) == AnyIn(metrics_keywords, query)

stop_words ==
    {"the", "a", "an", "and", "or", "but", "in", "on", "at", "to", "for",
     "of", "with", "by", "from", "as", "is", "was", "are", "were", "been",
     "have", "has", "had", "do", "does", "did", "will", "would", "could",
     "should", "may", "might", "must", "shall", "can", "need", "show", "find",
     "get", "list", "what", "which", "when", "where", "who", "why", "how"}

\* \w
IsWordChar(c) ==
    Contains(SmallLetters, c) \/ Contains(CapitalLetters, c) \/ Contains(DigitChars, c)
    \/ c = "_"

\* re.findall(r'\b\w+\b', text): the maximal runs of word characters
RECURSIVE WordsFrom(_, _, _)
WordsFrom(text, i, word) ==
    IF i > Len(text) THEN (IF word = "" THEN <<>> ELSE <<word>>)
    ELSE IF IsWordChar(CharAt(text, i)) THEN WordsFrom(text, i + 1, word \o CharAt(text, i))
    ELSE (IF word = "" THEN <<>> ELSE <<word>>) \o WordsFrom(text, i + 1, "")

_extract_keywords(query) ==
    SelectSeq(WordsFrom(Lower(query), 1, ""), LAMBDA w : w \notin stop_words /\ Len(w) > 2)

\* the digits at position i and after
RECURSIVE DigitsAt(_, _)
DigitsAt(text, i) ==
    IF i <= Len(text) /\ Contains(DigitChars, CharAt(text, i))
    THEN CharAt(text, i) \o DigitsAt(text, i + 1)
    ELSE ""

StartsAt(text, i, word) ==
    /\ i + Len(word) - 1 <= Len(text)
    /\ SubSeq(text, i, i + Len(word) - 1) = word

\* re.search(r"last (\d+) (hour|day|week|month)s?", query): the leftmost match
RelativeTimeMatches(query) ==
    { m \in [at : 1..Len(query), count : {DigitsAt(query, i + 5) : i \in 1..Len(query)},
             unit : {"hour", "day", "week", "month"}] :
        /\ StartsAt(query, m.at, "last ")
        /\ m.count # ""
        /\ m.count = DigitsAt(query, m.at + 5)
        /\ StartsAt(query, m.at + 5 + Len(m.count), " " \o m.unit) }

Leftmost(matches) == CHOOSE m \in matches : \A n \in matches : m.at <= n.at

\* re.search(<alternatives>, query): the leftmost of the words
WordMatches(query, words) ==
    { m \in [at : 1..Len(query), word : words] : StartsAt(query, m.at, m.word) }

\* _extract_time_filter: the description of the first pattern that matches;
\* start and end are read from the clock and are left out
_extract_time_filter(query) ==
    IF RelativeTimeMatches(query) # {}
    THEN LET m == Leftmost(RelativeTimeMatches(query))
         IN  Some([description |-> "last " \o m.count \o " " \o m.unit \o "s"])
    ELSE IF WordMatches(query, {"today", "yesterday"}) # {}
    THEN Some([description |-> Leftmost(WordMatches(query, {"today", "yesterday"})).word])
    ELSE IF WordMatches(query, {"this week", "this month"}) # {}
    THEN Some([description |->
                  Leftmost(WordMatches(query, {"this week", "this month"})).word])
    ELSE None

\* analyze_query with the order list(set(...)) gave the statuses
analyze_query(query, status_filter) ==
    [original_query |-> query,
     intent |-> _detect_intent(Lower(query)),
     entity_types |-> _detect_entity_types(Lower(query)),
     time_filter |-> _extract_time_filter(Lower(query)),
     status_filter |-> status_filter,
     keywords |-> _extract_keywords(query),
     metrics_requested |-> _detect_metrics_request(Lower(query))]

(***************************************************************************)
(* One analyze_query call.  The questions are built from words that hold   *)
(* the intent keywords, alone, inside longer words and in capitals.        *)
(***************************************************************************)
QuestionWords ==
    {"How", "many", "Count", "number", "of", "total", "Why", "root", "cause", "reason",
     "trend", "over", "time", "history", "compare", "difference", "vs", "Show", "list",
     "find", "get", "discount", "forget", "login", "tests", "failed", "rate"}

RECURSIVE Join(_)
Join(words) ==
    IF words = <<>> THEN ""
    ELSE IF Len(words) = 1 THEN words[1]
    ELSE words[1] \o " " \o Join(Tail(words))

Questions ==
    { Join(ws) : ws \in SeqsUpTo(QuestionWords, MaxWords) }
    \cup { "Why are the login tests failing?",
           "Show failed tests from the last 7 days",
           "What is the failure rate today?" }

QueryProbes == { [op |-> "analyze_query", query |-> q, result |-> None] : q \in Questions }

QueryInit == SyncIdle /\ probe \in QueryProbes

AnalyzeQuery ==
    /\ probe.op = "analyze_query"
    /\ probe.result = None
    /\ \E status_filter \in _extract_status_filter(Lower(probe.query)) :
            probe' = [probe EXCEPT !.result = Some(analyze_query(probe.query, status_filter))]
    /\ UNCHANGED sync_vars

QueryNext == AnalyzeQuery

QuerySpec == QueryInit /\ [][QueryNext]_vars

(***************************************************************************)
(* Python floats (IEEE 754 binary64, round to nearest, ties to even) for   *)
(* the non-negative values the metrics need.  A float is its 53-bit        *)
(* significand m, a sequence of bits with the highest first and leading 1, *)
(* and the exponent e of its last bit: the value is m * 2^e.  Zero has the *)
(* empty significand.                                                      *)
(***************************************************************************)
SignificandBits == 53

Zeros(n) == [i \in 1..n |-> 0]

\* the bits without leading zeros
Normal(bits) ==
    LET ones == { i \in DOMAIN bits : bits[i] = 1 }
    IN  IF ones = {} THEN <<>>
        ELSE SubSeq(bits, CHOOSE i \in ones : \A j \in ones : i <= j, Len(bits))

\* a + b + carry for bit sequences of one length: the lower halves first,
\* then the upper halves with the carry of the lower ones
RECURSIVE AddCarry(_, _, _)
AddCarry(a, b, carry) ==
    LET n == Len(a)
    IN  IF n = 0 THEN (IF carry = 1 THEN <<1>> ELSE <<>>)
        ELSE IF n = 1
        THEN (IF a[1] + b[1] + carry >= 2 THEN <<1, a[1] + b[1] + carry - 2>>
              ELSE <<a[1] + b[1] + carry>>)
        ELSE LET h == n \div 2
                 low == AddCarry(SubSeq(a, h + 1, n), SubSeq(b, h + 1, n), carry)
             IN  IF Len(low) > n - h
                 THEN AddCarry(SubSeq(a, 1, h), SubSeq(b, 1, h), 1) \o Tail(low)
                 ELSE AddCarry(SubSeq(a, 1, h), SubSeq(b, 1, h), 0) \o low

AddBits(a, b) ==
    LET n == IF Len(a) > Len(b) THEN Len(a) ELSE Len(b)
    IN  AddCarry(Zeros(n - Len(a)) \o a, Zeros(n - Len(b)) \o b, 0)

\* bits * c for a small natural number c
RECURSIVE MulBits(_, _)
MulBits(bits, c) ==
    IF c = 0 THEN <<>>
    ELSE IF c % 2 = 1 THEN AddBits(MulBits(bits, c \div 2) \o <<0>>, bits)
    ELSE MulBits(bits, c \div 2) \o <<0>>

RECURSIVE IntBits(_)
IntBits(n) == IF n = 0 THEN <<>> ELSE IntBits(n \div 2) \o <<n % 2>>

FloatZero == [m |-> <<>>, e |-> 0]

\* the float nearest to bits * 2^e, ties to even
Round(bits, e) ==
    LET b == Normal(bits)
        n == Len(b)
    IN  IF n = 0 THEN FloatZero
        ELSE IF n <= SignificandBits
        THEN [m |-> b \o Zeros(SignificandBits - n), e |-> e - (SignificandBits - n)]
        ELSE LET kept == SubSeq(b, 1, SignificandBits)
                 guard == b[SignificandBits + 1]
                 sticky == \E i \in (SignificandBits + 2)..n : b[i] = 1
                 up == guard = 1 /\ (sticky \/ kept[SignificandBits] = 1)
                 m == IF up THEN AddBits(kept, <<1>>) ELSE kept
             IN  IF Len(m) > SignificandBits
                 THEN [m |-> SubSeq(m, 1, SignificandBits), e |-> e + (n - SignificandBits) + 1]
                 ELSE [m |-> m, e |-> e + (n - SignificandBits)]

\* 2^n modulo d
RECURSIVE PowMod(_, _)
PowMod(n, d) ==
    IF n = 0 THEN 1 % d
    ELSE LET half == PowMod(n \div 2, d)
         IN  (half * half * (IF n % 2 = 1 THEN 2 ELSE 1)) % d

\* the first k bits of the quotient r / d of long division, for r <= d, the
\* first one being the integer part, and a last bit that says whether a
\* remainder is left
QuotientBits(r, d, k) ==
    [i \in 1..(k + 1) |->
        IF i = 1 THEN (IF r >= d THEN 1 ELSE 0)
        ELSE IF i <= k THEN (2 * ((r * PowMod(i - 2, d)) % d)) \div d
        ELSE (IF (r * PowMod(k - 1, d)) % d # 0 THEN 1 ELSE 0)]

\* a / b for ints 0 <= a <= b, b > 0: the correctly rounded quotient
QuotientLength == SignificandBits + 12
FloatDiv(a, b) == Round(QuotientBits(a, b, QuotientLength), -QuotientLength)

\* x * c for a float x and a small natural number c
FloatMul(x, c) == Round(MulBits(x.m, c), x.e)

FloatAdd(x, y) ==
    IF x.m = <<>> THEN y
    ELSE IF y.m = <<>> THEN x
    ELSE LET e == IF x.e < y.e THEN x.e ELSE y.e
         IN  Round(AddBits(x.m \o Zeros(x.e - e), y.m \o Zeros(y.e - e)), e)

FloatOfInt(n) == Round(IntBits(n), 0)

(***************************************************************************)
(* RAGPipeline._calculate_metrics (test_insights/rag/rag_pipeline).  A     *)
(* search result carries the metadata of a stored document.                *)
(***************************************************************************)
\* metrics[key].get(value, 0) + 1 over the results: value -> number of results
CountBy(search_results, key, default) ==
    LET value(i) == Get(search_results[i].metadata, key, default)
    IN  [v \in { value(i) : i \in DOMAIN search_results } |->
            Cardinality({ i \in DOMAIN search_results : value(i) = v })]

\* (count / total) * 100
Percentage(count, total) == FloatMul(FloatDiv(count, total), 100)

\* rates taken over all documents instead of the failed and passed ones
Rates_over_total(by_status, total_items) ==
    LET failed_count == Get(by_status, "FAILED", 0) + Get(by_status, "BROKEN", 0)
        passed_count == Get(by_status, "PASSED", 0)
    IN  IF failed_count + passed_count > 0
        THEN [failure_rate |-> Percentage(failed_count, total_items),
              success_rate |-> Percentage(passed_count, total_items)]
        ELSE EmptyMap

\* failure_rate and success_rate, when there is a failed or passed document
Rates(by_status, total_items) ==
    LET failed_count == Get(by_status, "FAILED", 0) + Get(by_status, "BROKEN", 0)
        passed_count == Get(by_status, "PASSED", 0)
    IN  IF failed_count + passed_count > 0
        THEN [failure_rate |-> Percentage(failed_count, failed_count + passed_count),
              success_rate |-> Percentage(passed_count, failed_count + passed_count)]
        ELSE EmptyMap

_calculate_metrics(search_results) ==
    LET total_items == Len(search_results)
        by_status == CountBy(search_results, "status", "UNKNOWN")
        metrics == [total_items |-> total_items,
                    by_status |-> by_status,
                    by_entity_type |-> CountBy(search_results, "entity_type", "unknown")]
    IN  IF total_items > 0
        THEN Update(Update(metrics,
                           [status_percentages |->
                               [st \in DOMAIN by_status |-> Percentage(by_status[st], total_items)]]),
                    Rates(by_status, total_items))
        ELSE metrics

(***************************************************************************)
(* One _calculate_metrics call over documents of each status, and of none. *)
(***************************************************************************)
ResultWith(status) ==
    [metadata |-> IF status = "" THEN [entity_type |-> "launch"]
                  ELSE [entity_type |-> "test_item", status |-> status]]

Repeat(x, n) == [i \in 1..n |-> x]

\* passed, failed, broken, skipped documents and documents without a status
ResultsOf(counts) ==
    Repeat(ResultWith("PASSED"), counts[1]) \o Repeat(ResultWith("FAILED"), counts[2])
    \o Repeat(ResultWith("BROKEN"), counts[3]) \o Repeat(ResultWith("SKIPPED"), counts[4])
    \o Repeat(ResultWith(""), counts[5])

MetricsProbes ==
    { [op |-> "_calculate_metrics", search_results |-> ResultsOf(counts), result |-> None] :
        counts \in [1..5 -> 0..MaxPerStatus] }

MetricsInit == SyncIdle /\ probe \in MetricsProbes

CalculateMetrics ==
    /\ probe.op = "_calculate_metrics"
    /\ probe.result = None
    /\ probe' = [probe EXCEPT !.result = Some(_calculate_metrics(probe.search_results))]
    /\ UNCHANGED sync_vars

MetricsNext == CalculateMetrics

MetricsSpec == MetricsInit /\ [][MetricsNext]_vars

(***************************************************************************)
(* RAGPipeline.query (test_insights/rag/rag_pipeline).  The storage client *)
(* and the provider are collaborators: their answers are chosen from small *)
(* sets, and every call made to them is appended to probe.calls.  The      *)
(* call suspends at the storage search and at the buffered generation.     *)
(***************************************************************************)
RECURSIVE LowerAll(_)
LowerAll(statuses) ==
    IF statuses = <<>> THEN <<>> ELSE <<Lower(Head(statuses))>> \o LowerAll(Tail(statuses))

\* analysis["keywords"] once build_search_query has appended the statuses to it
KeywordsBuilt(analysis) ==
    IF analysis.status_filter # None
    THEN analysis.keywords \o LowerAll(The(analysis.status_filter))
    ELSE analysis.keywords

build_search_query(analysis) == Join(KeywordsBuilt(analysis))

\* the instruction build_system_prompt adds to the base prompt
build_system_prompt(analysis) ==
    [base |-> "ReportPortal assistant",
     focus |-> IF analysis.intent \in {"count", "analysis", "trend", "comparison"}
               THEN analysis.intent ELSE ""]

\* where_clause if where_clause else None
WhereClause(analysis) ==
    LET entity == IF analysis.entity_types # <<>>
                  THEN [entity_type |-> analysis.entity_types] ELSE EmptyMap
        status == IF analysis.status_filter # None /\ The(analysis.status_filter) # <<>>
                  THEN [status |-> The(analysis.status_filter)] ELSE EmptyMap
    IN  IF DOMAIN Update(entity, status) = {} THEN None ELSE Some(Update(entity, status))

\* the system and user messages; the context is format_context(search_results)
_build_prompt(query, search_results, analysis, metrics) ==
    <<[role |-> "system", content |-> build_system_prompt(analysis)],
      [role |-> "user",
       content |-> [query |-> query, context |-> search_results, metrics |-> metrics]]>>

\* the bundle's search_results entry, whatever the include_raw_results flag
RawResultsAlways(search_results, include_raw_results) == Some(search_results)

\* search_results if include_raw_results else None
RawResults(search_results, include_raw_results) ==
    IF include_raw_results THEN Some(search_results) ELSE None

RagQuestions ==
    {"Why are the login tests failing?", "Show failed tests from the last 7 days",
     "What is the failure rate today?", "list launches", ""}

\* what the storage search may return
RetrievedSets == { ResultsOf(counts) : counts \in [1..5 -> 0..1] }

\* what the buffered generation may return
LLMResponses ==
    { [content |-> c, model |-> "model", usage |-> u] :
        c \in {"answer", ""}, u \in {None, Some([total_tokens |-> 7])} }

RagProbes ==
    { [op |-> "query", query |-> q, include_raw_results |-> raw, stream |-> st,
       pc |-> "called", calls |-> <<>>, analysis |-> None, search_results |-> None,
       metrics |-> None, messages |-> None, fragments_read |-> 0, result |-> None] :
        q \in RagQuestions, raw \in BOOLEAN, st \in BOOLEAN }

RagInit == SyncIdle /\ probe \in RagProbes

\* lines 46-63: the analysis, the search query, the filter, up to the search
QuerySearches ==
    /\ probe.op = "query"
    /\ probe.pc = "called"
    /\ \E status_filter \in _extract_status_filter(Lower(probe.query)) :
        \E analysis \in {analyze_query(probe.query, status_filter)} :
            probe' = [probe EXCEPT
                !.analysis = Some([analysis EXCEPT !.keywords = KeywordsBuilt(analysis)]),
                !.calls = <<[fn |-> "storage_client.query",
                             args |-> [query_text |-> build_search_query(analysis),
                                       n_results |-> 20,
                                       where |-> WhereClause(analysis)]]>>,
                !.pc = "searching"]
    /\ UNCHANGED sync_vars

\* the search fails: nothing in query() catches the error
SearchRaises ==
    /\ probe.op = "query"
    /\ probe.pc = "searching"
    /\ probe' = [probe EXCEPT !.pc = "raised"]
    /\ UNCHANGED sync_vars

\* lines 65-81: the search returns; metrics, prompt, and the streamed return
\* or the call of the buffered generation
SearchReturns ==
    /\ probe.op = "query"
    /\ probe.pc = "searching"
    /\ \E search_results \in RetrievedSets :
        \E metrics \in {IF The(probe.analysis).metrics_requested
                        THEN Some(_calculate_metrics(search_results)) ELSE None} :
        \E messages \in {_build_prompt(probe.query, search_results, The(probe.analysis), metrics)} :
            probe' = [probe EXCEPT
                !.search_results = Some(search_results),
                !.metrics = metrics,
                !.messages = Some(messages),
                !.calls = @ \o <<[fn |-> "llm_provider.format_context",
                                  args |-> [context_documents |-> search_results]],
                                 [fn |-> IF probe.stream THEN "llm_provider.generate_stream"
                                         ELSE "llm_provider.generate",
                                  args |-> [messages |-> messages]]>>,
                !.result = IF probe.stream
                           THEN Some([response |-> [generator |-> messages],
                                      analysis |-> The(probe.analysis),
                                      search_results |->
                                          RawResults(search_results, probe.include_raw_results),
                                      metrics |-> metrics])
                           ELSE None,
                !.pc = IF probe.stream THEN "returned" ELSE "generating"]
    /\ UNCHANGED sync_vars

\* the buffered generation fails: nothing in query() catches the error
GenerateRaises ==
    /\ probe.op = "query"
    /\ probe.pc = "generating"
    /\ probe' = [probe EXCEPT !.pc = "raised"]
    /\ UNCHANGED sync_vars

\* lines 81-90: the buffered generation returns and query() returns the bundle
GenerateReturns ==
    /\ probe.op = "query"
    /\ probe.pc = "generating"
    /\ \E response \in LLMResponses :
            probe' = [probe EXCEPT
                !.calls = [@ EXCEPT ![Len(@)] = Update(@, [returned |-> response])],
                !.result = Some([response |-> response.content,
                                 analysis |-> The(probe.analysis),
                                 search_results |->
                                     RawResults(The(probe.search_results),
                                                probe.include_raw_results),
                                 metrics |-> probe.metrics,
                                 model |-> response.model,
                                 usage |-> response.usage]),
                !.pc = "returned"]
    /\ UNCHANGED sync_vars

\* the caller of a streamed query takes the next fragment of the response
CallerReadsFragment ==
    /\ probe.op = "query"
    /\ probe.pc = "returned"
    /\ probe.stream
    /\ probe.fragments_read < MaxFragments
    /\ probe' = [probe EXCEPT !.fragments_read = @ + 1]
    /\ UNCHANGED sync_vars

RagNext ==
    \/ QuerySearches
    \/ SearchRaises
    \/ SearchReturns
    \/ GenerateRaises
    \/ GenerateReturns
    \/ CallerReadsFragment

RagSpec == RagInit /\ [][RagNext]_vars

(***************************************************************************)
(* RAGPipeline.query_with_feedback.  It calls query() on the refined       *)
(* question, without raw results and without streaming, so the probe is a  *)
(* query() call that also remembers the arguments of its caller; when the  *)
(* query has returned, the caller asks the provider for the improved       *)
(* answer.                                                                 *)
(***************************************************************************)
\* f"{query} (User feedback: {feedback})"
RefinedQuery(query, feedback) == query \o " (User feedback: " \o feedback \o ")"

\* the exchange without the previous response
FeedbackMessagesWithoutPrevious(analysis, query, previous_response, feedback) ==
    <<[role |-> "system", content |-> build_system_prompt(analysis)],
      [role |-> "user", content |-> "Original query: " \o query],
      [role |-> "user",
       content |-> "This response was incomplete. " \o feedback
                   \o " Please provide an improved answerbased on the available data."]>>

\* the messages of lines 182-196
FeedbackMessages(analysis, query, previous_response, feedback) ==
    <<[role |-> "system", content |-> build_system_prompt(analysis)],
      [role |-> "user", content |-> "Original query: " \o query],
      [role |-> "assistant", content |-> previous_response],
      [role |-> "user",
       content |-> "This response was incomplete. " \o feedback
                   \o " Please provide an improved answerbased on the available data."]>>

FeedbackQuestions == {"Why failed?", "list launches", "failure rate"}
Feedbacks == {"more", "add logs"}
PreviousResponses == {"answer", ""}

FeedbackProbes ==
    { [op |-> "query", query |-> RefinedQuery(q, f), include_raw_results |-> FALSE,
       stream |-> FALSE, pc |-> "called", calls |-> <<>>, analysis |-> None,
       search_results |-> None, metrics |-> None, messages |-> None, fragments_read |-> 0,
       result |-> None,
       caller |-> [op |-> "query_with_feedback", query |-> q, previous_response |-> p,
                   feedback |-> f]] :
        q \in FeedbackQuestions, f \in Feedbacks, p \in PreviousResponses }

FeedbackInit == SyncIdle /\ probe \in FeedbackProbes

\* lines 180-198: query() has returned; the four messages go to the provider
FeedbackGenerates ==
    /\ "caller" \in DOMAIN probe
    /\ probe.pc = "returned"
    /\ probe' = [probe EXCEPT
            !.calls = @ \o <<[fn |-> "llm_provider.generate",
                              args |-> [messages |->
                                  FeedbackMessages(The(probe.result).analysis,
                                                   probe.caller.query,
                                                   probe.caller.previous_response,
                                                   probe.caller.feedback)]]>>,
            !.pc = "refining"]
    /\ UNCHANGED sync_vars

\* the second generation fails: nothing in query_with_feedback catches it
FeedbackGenerateRaises ==
    /\ "caller" \in DOMAIN probe
    /\ probe.pc = "refining"
    /\ probe' = [probe EXCEPT !.pc = "raised"]
    /\ UNCHANGED sync_vars

\* lines 198-202: the second generation returns; the bundle of query() is
\* given its content and the refined marker
FeedbackReturns ==
    /\ "caller" \in DOMAIN probe
    /\ probe.pc = "refining"
    /\ \E response \in LLMResponses :
            probe' = [probe EXCEPT
                !.calls = [@ EXCEPT ![Len(@)] = Update(@, [returned |-> response])],
                !.result = Some(Update(The(@), [response |-> response.content,
                                                refined |-> TRUE])),
                !.pc = "refined"]
    /\ UNCHANGED sync_vars

FeedbackNext ==
    \/ QuerySearches
    \/ SearchRaises
    \/ SearchReturns
    \/ GenerateRaises
    \/ GenerateReturns
    \/ FeedbackGenerates
    \/ FeedbackGenerateRaises
    \/ FeedbackReturns

FeedbackSpec == FeedbackInit /\ [][FeedbackNext]_vars

(***************************************************************************)
(* One call of a sync_* method of the orchestrator, none of its calls      *)
(* raising, against an upstream with several launches, items and log       *)
(* entries and with a batch size of its own.  probe.result is the sequence *)
(* of API and storage calls the method made.                               *)
(***************************************************************************)
LoopLaunchIds == 1..MaxLoopLaunches

\* the test items of a launch, from their statuses; "" is an item without one
LoopItems(l, statuses) ==
    [k \in 1..Len(statuses) |->
        IF statuses[k] = "" THEN [id |-> 10 * l + k]
        ELSE [id |-> 10 * l + k, status |-> statuses[k]]]

ItemLists == {<<>>, <<"FAILED", "PASSED">>, <<"", "BROKEN", "SKIPPED">>}

LogLevels == {"error", "fatal", "info", ""}

IdleWith(size, launches, items, logs) ==
    /\ settings = [enable_full_sync |-> TRUE, enable_incremental_sync |-> TRUE,
                   sync_batch_size |-> size]
    /\ up_launches = launches
    /\ up_items = items
    /\ up_logs = logs
    /\ storage = EmptyMap
    /\ sync_metadata = EmptyMap
    /\ now = Epoch
    /\ run = IdleRun
    /\ request = None
    /\ calls = <<>>
    /\ outcome = [status |-> "none"]
    /\ last_returned = None
    /\ previous_run = None
    /\ spent = [syncs |-> 0, faults |-> 0]

\* the upstreams with some of the launches, all recent, and their items
LoopUpstreams ==
    { [launches |-> [l \in ids |-> LaunchRecord(l, [startTime |-> Fresh,
                                                     lastModified |-> [form |-> "digits",
                                                                       t |-> Fresh]])],
       items |-> [l \in ids |-> LoopItems(l, statuses[l])]] :
        ids \in SUBSET LoopLaunchIds, statuses \in [LoopLaunchIds -> ItemLists] }

ListProbes(launches) ==
    {[op |-> "sync_users", result |-> None]}
    \cup { [op |-> "sync_launches", project_name |-> p, result |-> None] : p \in {"p1", "p2"} }
    \cup { [op |-> "sync_test_items", project_name |-> LaunchProject(l), launch_id |-> l,
            result |-> None] : l \in DOMAIN launches }
    \cup { [op |-> "sync_filters", project_name |-> p, result |-> None] : p \in {"p1", "p2"} }
    \cup { [op |-> "sync_dashboards", project_name |-> p, bad_widgets |-> bad,
            result |-> None] : p \in {"p1", "p2"}, bad \in SUBSET WidgetIds }

LogProbes ==
    { [op |-> "sync_logs", project_name |-> "p1", item_id |-> 11, max_logs |-> cap,
       result |-> None] : cap \in 1..MaxCap }

LoopInit ==
    \/ \E size \in 1..MaxBatch, up \in LoopUpstreams :
            /\ IdleWith(size, up.launches, up.items, <<"error", "info", "warn">>)
            /\ probe \in ListProbes(up.launches)
    \/ \E size \in 1..MaxBatch, logs \in SeqsUpTo(LogLevels, MaxLogs) :
            /\ IdleWith(size, EmptyMap, EmptyMap, logs)
            /\ probe \in LogProbes

SyncUsers ==
    /\ probe.op = "sync_users"
    /\ probe.result = None
    /\ probe' = [probe EXCEPT !.result = Some(sync_users)]
    /\ UNCHANGED sync_vars

SyncLaunches ==
    /\ probe.op = "sync_launches"
    /\ probe.result = None
    /\ probe' = [probe EXCEPT !.result = Some(sync_launches(probe.project_name, <<>>))]
    /\ UNCHANGED sync_vars

SyncTestItems ==
    /\ probe.op = "sync_test_items"
    /\ probe.result = None
    /\ probe' = [probe EXCEPT
            !.result = Some(sync_test_items(probe.project_name, probe.launch_id))]
    /\ UNCHANGED sync_vars

SyncLogs ==
    /\ probe.op = "sync_logs"
    /\ probe.result = None
    /\ probe' = [probe EXCEPT
            !.result = Some(sync_logs_from(probe.project_name, probe.item_id,
                                           probe.max_logs, 0, 0))]
    /\ UNCHANGED sync_vars

SyncFilters ==
    /\ probe.op = "sync_filters"
    /\ probe.result = None
    /\ probe' = [probe EXCEPT !.result = Some(sync_filters(probe.project_name))]
    /\ UNCHANGED sync_vars

SyncDashboards ==
    /\ probe.op = "sync_dashboards"
    /\ probe.result = None
    /\ probe' = [probe EXCEPT
            !.result = Some(sync_dashboards(probe.project_name, probe.bad_widgets))]
    /\ UNCHANGED sync_vars

LoopNext ==
    \/ SyncUsers
    \/ SyncLaunches
    \/ SyncTestItems
    \/ SyncLogs
    \/ SyncFilters
    \/ SyncDashboards

LoopSpec == LoopInit /\ [][LoopNext]_vars

(***************************************************************************)
(* One sync() call against an upstream with several launches and items,    *)
(* from its start to its return, with the calls that raise on the way.     *)
(***************************************************************************)
\* the (project_names, entity_types) arguments of the call
RunArgs ==
    { <<None, None>>,
      <<Some(<<"p2", "p1">>), Some(<<"dashboard", "launch", "user">>)>>,
      <<Some(<<"p1">>), Some(<<"test_item", "log", "filter">>)>> }

RunInit ==
    /\ \E size \in 1..BatchSize, up \in LoopUpstreams :
            IdleWith(size, up.launches, up.items, <<"error", "info", "warn">>)
    /\ probe = NoProbe

RunNext ==
    \/ \E st \in {"full", "incremental"}, args \in RunArgs : SyncStart(st, args[1], args[2])
    \/ \E bad \in SUBSET WidgetIds : SyncEntity(bad)
    \/ SyncReturn

RunSpec == RunInit /\ [][RunNext]_vars

(***************************************************************************)
(* Properties of the strategies' filter_entities (FilterSpec).             *)
(***************************************************************************)
FilterReturned(strategy) ==
    /\ probe.op = "filter_entities"
    /\ probe.strategy = strategy
    /\ probe.result # None

\* the candidate's id is not in existing_ids
IsNew(entity) == _generate_id(probe.entity_type, entity) \notin probe.existing_ids

\* the candidate has a modification timestamp, in a form the filter parses and
\* compares, that is before the cutoff
IsOld(entity) ==
    /\ "lastModified" \in DOMAIN entity
    /\ entity.lastModified.form \in {"digits", "iso", "isoZ", "datetime", "aware"}
    /\ entity.lastModified.t < probe.cutoff_date

RECURSIVE IsSubsequence(_, _)
IsSubsequence(a, b) ==
    IF a = <<>> THEN TRUE
    ELSE IF b = <<>> THEN FALSE
    ELSE IF Head(a) = Head(b) THEN IsSubsequence(Tail(a), Tail(b))
    ELSE IsSubsequence(a, Tail(b))

\* C11: IncrementalSyncStrategy.filter_entities returns a subsequence of the
\* candidates, in their order, and the candidates whose id is not in
\* existing_ids are all in it, whatever their lastModified is.
C11_NewCandidatesAreKept ==
    FilterReturned("incremental") =>
        LET kept == The(probe.result)
        IN  /\ IsSubsequence(kept, probe.entities)
            /\ SelectSeq(kept, IsNew) = SelectSeq(probe.entities, IsNew)

\* a call that kept a new candidate with an old timestamp and dropped another
C11_Witness ==
    /\ FilterReturned("incremental")
    /\ Len(The(probe.result)) < Len(probe.entities)
    /\ \E i \in DOMAIN The(probe.result) :
            IsNew(The(probe.result)[i]) /\ IsOld(The(probe.result)[i])

\* C12: IncrementalSyncStrategy.filter_entities drops every candidate whose id
\* is in existing_ids and whose lastModified is before the cutoff, be it a
\* string of digits, an ISO-8601 string with or without a trailing Z, or a
\* datetime object.
C12_AsStated ==
    FilterReturned("incremental") =>
        \A i \in DOMAIN The(probe.result) :
            LET entity == The(probe.result)[i]
            IN  ~ ( /\ ~IsNew(entity)
                    /\ IsOld(entity)
                    /\ entity.lastModified.form \in {"digits", "iso", "isoZ", "datetime"} )

\* the candidate has no lastModified, an empty one, or one that is no date
IsUnreadable(entity) ==
    \/ "lastModified" \notin DOMAIN entity
    \/ entity.lastModified.form \in {"empty", "garbage"}

\* C13: IncrementalSyncStrategy.filter_entities keeps every candidate whose
\* lastModified is missing or unparsable, also when its id is in existing_ids.
C13_AsStated ==
    FilterReturned("incremental") =>
        SelectSeq(The(probe.result), IsUnreadable) = SelectSeq(probe.entities, IsUnreadable)

\* what IncrementalSyncStrategy.filter_entities returns for the same call
IncrementalResult ==
    IncrementalSyncStrategy_filter_entities(
        probe.entities, probe.existing_ids, probe.entity_type, probe.cutoff_date)

\* a priority status, a priority issue type, or children with failed executions
HasPriority(entity) ==
    \/ "status" \in DOMAIN entity /\ entity.status \in {"FAILED", "BROKEN"}
    \/ "issue" \in DOMAIN entity /\ entity.issue.issueType \in {"pb001", "ab001", "si001"}
    \/ /\ "hasChildren" \in DOMAIN entity
       /\ entity.hasChildren
       /\ entity.statistics.executions.failed > 0

Occurrences(entity, entities) ==
    Cardinality({ i \in DOMAIN entities : entities[i] = entity })

IsFailedOldStored(entity) ==
    /\ "status" \in DOMAIN entity
    /\ entity.status = "FAILED"
    /\ IsOld(entity)
    /\ ~IsNew(entity)

PageIs(total, page, size) ==
    /\ probe.response.total = total
    /\ probe.response.page = page
    /\ probe.response.size = size

\* C15: has_next is true exactly when (page + 1) * size < total, that is when
\* some item of the total lies beyond the pages up to this one; it is true
\* for total 10, page 0, size 3 and false for total 10, page 3, size 3.
C15_HasNextIffItemsRemain ==
    (probe.op = "has_next" /\ probe.result # None) =>
        /\ The(probe.result) =
                ((probe.response.page + 1) * probe.response.size < probe.response.total)
        /\ The(probe.result) =
                (\E k \in 1..probe.response.total :
                    k > (probe.response.page + 1) * probe.response.size)
        /\ PageIs(10, 0, 3) => The(probe.result)
        /\ PageIs(10, 3, 3) => ~The(probe.result)

\* has_next was read on the last page of the example and said no
C15_Witness ==
    /\ probe.op = "has_next"
    /\ PageIs(10, 3, 3)
    /\ probe.result = Some(FALSE)

(***************************************************************************)
(* Properties of ChromaDBClient._generate_id (IdSpec).                     *)
(***************************************************************************)
IntValue(n) == [type |-> "int", int |-> n, str |-> ""]
StrValue(t) == [type |-> "str", int |-> 0, str |-> t]
NoneValue == [type |-> "NoneType", int |-> 0, str |-> ""]

\* the value that identifies a record of a kind: id, userId falling back to
\* id, or projectName
IdentifyingValue(entity_type, entity_data) ==
    LET by_id == IF "id" \in DOMAIN entity_data THEN IntValue(entity_data.id)
                 ELSE NoneValue
    IN  IF entity_type = "user"
        THEN IF "userId" \in DOMAIN entity_data THEN StrValue(entity_data.userId)
             ELSE by_id
        ELSE IF entity_type = "project"
        THEN IF "projectName" \in DOMAIN entity_data
             THEN StrValue(entity_data.projectName) ELSE NoneValue
        ELSE by_id

\* the ids the tests expect for their three records
IdExamples ==
    /\ (probe.entity_type = "launch" /\ IdentifyingValue("launch", probe.first) = IntValue(123))
            => The(probe.result)[1] = "launch:123"
    /\ (probe.entity_type = "user" /\ IdentifyingValue("user", probe.first) = StrValue("testuser"))
            => The(probe.result)[1] = "user:testuser"
    /\ (probe.entity_type = "project"
            /\ IdentifyingValue("project", probe.first) = StrValue("test-proj"))
            => The(probe.result)[1] = "project:test-proj"

\* C16: the document id depends on the kind and the identifying value only,
\* it is the kind, a colon and the value, and two records of one kind with
\* different identifying values get different ids.
C16_AsStated ==
    (probe.op = "_generate_id" /\ probe.result # None) =>
        LET first == IdentifyingValue(probe.entity_type, probe.first)
            second == IdentifyingValue(probe.entity_type, probe.second)
        IN  /\ first = second => The(probe.result)[1] = The(probe.result)[2]
            /\ IdExamples
            /\ first # second => The(probe.result)[1] # The(probe.result)[2]

(***************************************************************************)
(* Properties of QueryProcessor.analyze_query (QuerySpec).                 *)
(***************************************************************************)
Analyzed(query) ==
    /\ probe.op = "analyze_query"
    /\ probe.query = query
    /\ probe.result # None

\* C17, as stated: the question "Why are the login tests failing?" is analysed
\* as intent analysis with the entity types [test_item].
C17_AsStated ==
    Analyzed("Why are the login tests failing?") =>
        /\ The(probe.result).intent = "analysis"
        /\ The(probe.result).entity_types = <<"test_item">>

\* C17: the question "Why are the login tests failing?" is analysed as intent
\* analysis with the entity types [test_item, log]: "tests" holds the keyword
\* test, and "login" holds the keyword log.
C17_LoginQuestionAnalysis ==
    Analyzed("Why are the login tests failing?") =>
        /\ The(probe.result).intent = "analysis"
        /\ The(probe.result).entity_types = <<"test_item", "log">>

C17_Witness == Analyzed("Why are the login tests failing?")

\* the intent categories in their priority, with their keywords
IntentPriority ==
    << [intent |-> "count", keywords |-> {"how many", "count", "number of", "total"}],
       [intent |-> "analysis", keywords |-> {"why", "root cause", "reason"}],
       [intent |-> "trend", keywords |-> {"trend", "over time", "history"}],
       [intent |-> "comparison", keywords |-> {"compare", "difference", "vs"}],
       [intent |-> "search", keywords |-> {"show", "list", "find", "get"}] >>

\* the keyword occurs in the question, whatever the case of its letters there
OccursIn(keyword, question) ==
    \E i \in 1..(Len(question) - Len(keyword) + 1) :
        Lower(SubSeq(question, i, i + Len(keyword) - 1)) = keyword

CategoriesIn(question) ==
    { c \in DOMAIN IntentPriority :
        \E keyword \in IntentPriority[c].keywords : OccursIn(keyword, question) }

\* C18: the intent of a question is the first category, in the order count,
\* analysis, trend, comparison, search, one of whose keywords occurs in it as
\* a substring whatever the case; it is general exactly when none occurs.
C18_IntentIsFirstMatch ==
    (probe.op = "analyze_query" /\ probe.result # None) =>
        LET found == CategoriesIn(probe.query)
            intent == The(probe.result).intent
        IN  /\ found # {} =>
                    intent = IntentPriority[CHOOSE c \in found : \A d \in found : c <= d].intent
            /\ (found = {}) <=> (intent = "general")

\* a question with an analysis word before a count word, both in capitals,
\* was given the intent count
C18_Witness ==
    /\ Analyzed("Why Count")
    /\ CategoriesIn(probe.query) = {1, 2}
    /\ The(probe.result).intent = "count"

(***************************************************************************)
(* Properties of RAGPipeline._calculate_metrics (MetricsSpec).             *)
(***************************************************************************)
MetricsReturned == probe.op = "_calculate_metrics" /\ probe.result # None

\* the retrieved documents with one of the statuses
Retrieved(statuses) ==
    Cardinality({ i \in DOMAIN probe.search_results :
                    /\ "status" \in DOMAIN probe.search_results[i].metadata
                    /\ probe.search_results[i].metadata.status \in statuses })

Hundred == FloatOfInt(100)
\* the floats next to 100.0: 100 - 2^-46 and 100 + 2^-46
BelowHundred == [m |-> IntBits(99) \o [i \in 1..46 |-> 1], e |-> -46]
AboveHundred == [m |-> IntBits(100) \o Zeros(45) \o <<1>>, e |-> -46]

\* total_items, and the two rates exactly when a failed, broken or passed
\* document was retrieved, computed from those documents alone
MetricsRates ==
    LET metrics == The(probe.result)
        failed == Retrieved({"FAILED", "BROKEN"})
        passed == Retrieved({"PASSED"})
    IN  /\ metrics.total_items = Len(probe.search_results)
        /\ ("failure_rate" \in DOMAIN metrics) <=> (failed + passed > 0)
        /\ ("success_rate" \in DOMAIN metrics) <=> (failed + passed > 0)
        /\ failed + passed > 0 =>
                /\ metrics.failure_rate = FloatMul(FloatDiv(failed, failed + passed), 100)
                /\ metrics.success_rate = FloatMul(FloatDiv(passed, failed + passed), 100)
        /\ (failed = 3 /\ passed = 3 /\ Len(probe.search_results) = 7) =>
                /\ metrics.total_items = 7
                /\ metrics.failure_rate = FloatOfInt(50)
                /\ metrics.success_rate = FloatOfInt(50)

\* C19, as stated: total_items is the number of documents, the rates are
\* reported exactly when a failed, broken or passed document was retrieved,
\* ignore the other statuses, and their sum is 100.
C19_AsStated ==
    MetricsReturned =>
        /\ MetricsRates
        /\ "failure_rate" \in DOMAIN The(probe.result) =>
                FloatAdd(The(probe.result).failure_rate, The(probe.result).success_rate)
                    = Hundred

\* C19: total_items is the number of documents, the rates are reported
\* exactly when a failed, broken or passed document was retrieved, ignore the
\* other statuses, and their sum is 100.0 or one of the two floats next to it.
C19_RatesOverFailedAndPassed ==
    MetricsReturned =>
        /\ MetricsRates
        /\ "failure_rate" \in DOMAIN The(probe.result) =>
                FloatAdd(The(probe.result).failure_rate, The(probe.result).success_rate)
                    \in {BelowHundred, Hundred, AboveHundred}

\* the metrics of [PASSED, PASSED, PASSED, FAILED, FAILED, BROKEN, SKIPPED]
C19_Witness ==
    /\ MetricsReturned
    /\ probe.search_results = ResultsOf(<<3, 2, 1, 1, 0>>)
    /\ The(probe.result).failure_rate = FloatOfInt(50)

(***************************************************************************)
(* Properties of RAGPipeline.query (RagSpec).                              *)
(***************************************************************************)
QueryReturned == probe.op = "query" /\ probe.pc = "returned"

CallsTo(fn) == { i \in DOMAIN probe.calls : probe.calls[i].fn = fn }

ProviderCalls ==
    { i \in DOMAIN probe.calls :
        probe.calls[i].fn \in {"llm_provider.format_context", "llm_provider.generate",
                               "llm_provider.generate_stream"} }

\* C20: the storage search is made once, before every call of the provider;
\* a streamed query returns the sequence generate_stream gave with nothing
\* read from it and never calls generate; a buffered query calls generate
\* once and returns its content, model and usage; either returns the search
\* results exactly when include_raw_results is set.
C20_QueryCallsAndBundle ==
    probe.op = "query" =>
        /\ Cardinality(CallsTo("storage_client.query")) <= 1
        /\ \A i \in ProviderCalls : \E j \in CallsTo("storage_client.query") : j < i
        /\ probe.stream => CallsTo("llm_provider.generate") = {}
        /\ ~probe.stream => CallsTo("llm_provider.generate_stream") = {}
        /\ probe.pc # "returned" => probe.fragments_read = 0 /\ probe.result = None
        /\ QueryReturned =>
            /\ Cardinality(CallsTo("storage_client.query")) = 1
            /\ The(probe.result).search_results =
                    (IF probe.include_raw_results THEN probe.search_results ELSE None)
            /\ probe.stream =>
                /\ Cardinality(CallsTo("llm_provider.generate_stream")) = 1
                /\ \A i \in CallsTo("llm_provider.generate_stream") :
                        The(probe.result).response = [generator |-> probe.calls[i].args.messages]
            /\ ~probe.stream =>
                /\ Cardinality(CallsTo("llm_provider.generate")) = 1
                /\ \A i \in CallsTo("llm_provider.generate") :
                        /\ The(probe.result).response = probe.calls[i].returned.content
                        /\ The(probe.result).model = probe.calls[i].returned.model
                        /\ The(probe.result).usage = probe.calls[i].returned.usage

\* a streamed query has just returned, without the search results it found
C20_Witness ==
    /\ QueryReturned
    /\ probe.stream
    /\ ~probe.include_raw_results
    /\ probe.search_results # None /\ probe.search_results # Some(<<>>)
    /\ probe.fragments_read = 0
    /\ Len(probe.calls) = 3

\* the analysis analyze_query gave for the question of the returned query
AnalysisMade ==
    analyze_query(probe.query, The(probe.result).analysis.status_filter)

\* the analysis as build_search_query leaves it
AnalysisBuilt(analysis) == [analysis EXCEPT !.keywords = KeywordsBuilt(analysis)]

\* C22, as stated: build_search_query leaves the analysis as it was, so a
\* second build_search_query on it returns the same string, and the analysis
\* query() returns is the one analyze_query produced.
C22_AsStated ==
    QueryReturned =>
        /\ AnalysisBuilt(AnalysisMade) = AnalysisMade
        /\ build_search_query(AnalysisBuilt(AnalysisMade)) = build_search_query(AnalysisMade)
        /\ The(probe.result).analysis = AnalysisMade

(***************************************************************************)
(* Properties of RAGPipeline.query_with_feedback (FeedbackSpec).           *)
(***************************************************************************)
FeedbackReturned == "caller" \in DOMAIN probe /\ probe.pc = "refined"

\* C21: query_with_feedback runs query() on the question extended with the
\* feedback before it sends anything else to the provider, then sends the
\* provider four messages: system (the prompt of the new analysis), user (the
\* original question), assistant (the previous response), user (a corrective
\* turn holding the feedback); the bundle it returns has the content of that
\* second generation as response and a true refined marker.
C21_FeedbackExchange ==
    "caller" \in DOMAIN probe =>
        /\ probe.query = probe.caller.query \o " (User feedback: " \o probe.caller.feedback \o ")"
        /\ Contains(probe.query, probe.caller.query) /\ Contains(probe.query, probe.caller.feedback)
        /\ \A i \in DOMAIN probe.calls :
                (probe.calls[i].fn = "llm_provider.generate"
                    /\ Len(probe.calls[i].args.messages) = 4) =>
                    /\ i = 4
                    /\ probe.calls[1].fn = "storage_client.query"
                    /\ probe.calls[1].args.query_text =
                            build_search_query(analyze_query(probe.query,
                                                             The(probe.analysis).status_filter))
                    /\ probe.calls[3].fn = "llm_provider.generate"
                    /\ "returned" \in DOMAIN probe.calls[3]
        /\ FeedbackReturned =>
            LET call == probe.calls[Len(probe.calls)]
                messages == call.args.messages
            IN  /\ Len(probe.calls) = 4
                /\ call.fn = "llm_provider.generate"
                /\ Len(messages) = 4
                /\ <<messages[1].role, messages[2].role, messages[3].role, messages[4].role>>
                        = <<"system", "user", "assistant", "user">>
                /\ messages[1].content = build_system_prompt(The(probe.analysis))
                /\ Contains(messages[2].content, probe.caller.query)
                /\ ~Contains(messages[2].content, probe.caller.feedback)
                /\ messages[3].content = probe.caller.previous_response
                /\ Contains(messages[4].content, probe.caller.feedback)
                /\ The(probe.result).response = call.returned.content
                /\ The(probe.result).refined = TRUE
                /\ The(probe.result).analysis = The(probe.analysis)

\* a refined answer was returned that differs from the first answer
C21_Witness ==
    /\ FeedbackReturned
    /\ probe.caller.previous_response = "answer"
    /\ probe.calls[3].returned.content = ""
    /\ The(probe.result).response = "answer"
    /\ The(probe.result).refined

(***************************************************************************)
(* Properties of the sync_* methods (LoopSpec).                            *)
(***************************************************************************)
LoopReturned(op) == probe.op = op /\ probe.result # None

\* the calls the method made
LoopCalls == The(probe.result)

\* the positions of the calls of an operation
CallsOf(cs, op) == { i \in DOMAIN cs : cs[i].op = op }

ImportantLevels == {"error", "warn", "fatal"}

\* C23: one sync_logs call upserts at most max_logs entries, requests no
\* page once it has upserted max_logs entries, never gets more entries than
\* the size it asked for, and upserts only entries of level error, warn or
\* fatal.
C23_LogSyncIsCapped ==
    LoopReturned("sync_logs") =>
        /\ Synced(LoopCalls, "log") <= probe.max_logs
        /\ \A i \in CallsOf(LoopCalls, "get_logs") :
                /\ Synced(SubSeq(LoopCalls, 1, i - 1), "log") < probe.max_logs
                /\ Len(LoopCalls[i].resp.items) <= LoopCalls[i].args[4]
        /\ \A i \in CallsOf(LoopCalls, "upsert_documents") :
                /\ LoopCalls[i].args[1] = "log"
                /\ \A k \in DOMAIN LoopCalls[i].args[2] :
                        /\ "level" \in DOMAIN LoopCalls[i].args[2][k]
                        /\ LoopCalls[i].args[2][k].level \in ImportantLevels

\* a log sync stopped at the cap, with pages left upstream and an entry of
\* another level passed over
C23_Witness ==
    /\ LoopReturned("sync_logs")
    /\ probe.max_logs = 2
    /\ Synced(LoopCalls, "log") = 2
    /\ Len(up_logs) = 4
    /\ up_logs[1] = "info"
    /\ has_next(LoopCalls[Len(LoopCalls) - 1].resp)

\* the range of the upstream list a page request covers
RangeStart(call) == call.args[3] * call.args[4]
RangeEnd(call) == (call.args[3] + 1) * call.args[4]

\* C30, as stated: the successive page requests of one log sync cover
\* consecutive, disjoint ranges of the log list of the item.
C30_AsStated ==
    LoopReturned("sync_logs") =>
        \A i, j \in CallsOf(LoopCalls, "get_logs") :
            i < j =>
                /\ RangeEnd(LoopCalls[i]) <= RangeStart(LoopCalls[j])
                /\ (\A k \in CallsOf(LoopCalls, "get_logs") : ~(i < k /\ k < j)) =>
                        RangeEnd(LoopCalls[i]) = RangeStart(LoopCalls[j])

ListOps ==
    {"get_users", "get_launches", "get_test_items", "get_logs", "get_filters",
     "get_dashboards"}

\* two page requests of one loop: the same operation for the same project
\* and the same launch or item
SameLoop(c, d) ==
    /\ c.op = d.op
    /\ c.op # "get_users" => c.args[1] = d.args[1]
    /\ c.op \in {"get_test_items", "get_logs"} => c.args[2] = d.args[2]

\* the positions of the requests of the loop that made request i
LoopOf(cs, i) == { j \in DOMAIN cs : cs[j].op \in ListOps /\ SameLoop(cs[i], cs[j]) }

\* request i is the n-th request of its loop
Rank(cs, i) == Cardinality({ j \in LoopOf(cs, i) : j <= i })

IsLast(cs, i) == \A j \in LoopOf(cs, i) : j <= i

Ceil(a, b) == (a + b - 1) \div b

Max(a, b) == IF a > b THEN a ELSE b

\* the operation whose loop is the loop of the method looked at
OwnOp ==
    IF probe.op = "sync_users" THEN "get_users"
    ELSE IF probe.op = "sync_launches" THEN "get_launches"
    ELSE IF probe.op = "sync_test_items" THEN "get_test_items"
    ELSE IF probe.op = "sync_logs" THEN "get_logs"
    ELSE IF probe.op = "sync_filters" THEN "get_filters"
    ELSE "get_dashboards"

\* the pages of a loop are 0, 1, 2, ... and it stops right after the first
\* response without a next page, within ceil(total / size) requests
PagesUntilNoNext(cs, i) ==
    /\ cs[i].resp.page = Rank(cs, i) - 1
    /\ IsLast(cs, i) <=> (cs[i].resp.page + 1) * cs[i].resp.size >= cs[i].resp.total
    /\ Cardinality(LoopOf(cs, i)) <= Max(1, Ceil(cs[i].resp.total, cs[i].resp.size))

\* C24, as stated: every list-fetch loop requests the pages 0, 1, 2, ... in
\* order, stops right after the first response with
\* (page+1)*page_size >= total, and so makes at least one and at most
\* ceil(total/size) requests.
C24_AsStated ==
    (probe.op \in {"sync_users", "sync_launches", "sync_test_items", "sync_logs",
                   "sync_filters", "sync_dashboards"} /\ probe.result # None) =>
        /\ CallsOf(LoopCalls, OwnOp) # {}
        /\ \A i \in DOMAIN LoopCalls :
                LoopCalls[i].op \in ListOps => PagesUntilNoNext(LoopCalls, i)

\* the cap of the log sync looked at, or of a log sync inside another method
CapOf == IF probe.op = "sync_logs" THEN probe.max_logs ELSE max_logs

\* the entries the log sync of request i has upserted when the page of that
\* request is done
LogsSyncedThrough(cs, i) ==
    Synced(SelectSeq(SubSeq(cs, 1, Min(i + 1, Len(cs))),
                     LAMBDA c : c.op = "upsert_documents" /\ c.args[1] = "log"
                                /\ c.args[3].item_id = IntToStr(cs[i].args[2])),
           "log")

\* C24: every list-fetch loop requests the pages 0, 1, 2, ... in order.  The
\* loops over users, launches, test items, filters and dashboards stop right
\* after the first response with (page+1)*page_size >= total and make at
\* least one and at most ceil(total/size) requests.  The loop over logs asks
\* for at most the entries still allowed by its cap; it stops right after
\* the first response that has no next page for the size asked or that
\* brings its count to the cap, and makes at least one request and at most
\* as many as there are entries.
C24_ListLoopsPageInOrder ==
    (probe.op \in {"sync_users", "sync_launches", "sync_test_items", "sync_logs",
                   "sync_filters", "sync_dashboards"} /\ probe.result # None) =>
        /\ CallsOf(LoopCalls, OwnOp) # {}
        /\ \A i \in DOMAIN LoopCalls :
            /\ (LoopCalls[i].op \in ListOps \ {"get_logs"}) =>
                    /\ PagesUntilNoNext(LoopCalls, i)
                    /\ LoopCalls[i].resp.size = settings.sync_batch_size
            /\ LoopCalls[i].op = "get_logs" =>
                    /\ LoopCalls[i].resp.page = Rank(LoopCalls, i) - 1
                    /\ LoopCalls[i].resp.size >= 1
                    /\ LoopCalls[i].resp.size <= settings.sync_batch_size
                    /\ IsLast(LoopCalls, i) <=>
                            \/ ~has_next(LoopCalls[i].resp)
                            \/ LogsSyncedThrough(LoopCalls, i) >= CapOf
                    /\ Cardinality(LoopOf(LoopCalls, i))
                            <= Max(1, LoopCalls[i].resp.total)

\* a log sync that made more requests than ceil(total/size) of its first
\* request, the later ones with a smaller size
C24_Witness ==
    /\ LoopReturned("sync_logs")
    /\ Len(up_logs) = 3
    /\ Cardinality(CallsOf(LoopCalls, "get_logs")) = 3
    /\ LoopCalls[1].resp.size = 2
    /\ LoopCalls[Len(LoopCalls)].op = "get_logs"
    /\ LoopCalls[Len(LoopCalls)].resp.size = 1

(***************************************************************************)
(* Properties of one sync() run over several launches (RunSpec).           *)
(***************************************************************************)
\* the kinds and the projects the current (or last) run goes through, in the
\* order of its loops
KindsOf(req) ==
    IF req.entity_types = None THEN AllEntityTypes ELSE The(req.entity_types)

ProjectsOf(req) ==
    IF req.project_names = None
    THEN [i \in 1..Len(get_projects) |-> Get(get_projects[i], "projectName", "None")]
    ELSE The(req.project_names)

Position(seq, x) == CHOOSE i \in 1..Len(seq) : seq[i] = x

KindRank(c) == IF c.during = "discovery" THEN 0 ELSE Position(KindsOf(Req), c.during)

\* the project a call made for a per-project kind is about
ProjectOfCall(c) ==
    IF c.op = "upsert_documents" THEN c.args[3].project_name ELSE c.args[1]

PerProject == {"launch", "filter", "dashboard"}

\* the launches a call is nested under: the launch whose test items it
\* fetches or stores, or the launch of the item whose logs it fetches or stores
NestedUnder(c) ==
    IF c.op = "get_test_items" THEN {c.args[2]}
    ELSE IF c.op = "upsert_documents" /\ c.args[1] = "test_item"
    THEN {l \in DOMAIN up_items : IntToStr(l) = c.args[3].launch_id}
    ELSE IF c.op = "get_logs"
    THEN {l \in DOMAIN up_items :
            \E k \in DOMAIN up_items[l] : up_items[l][k].id = c.args[2]}
    ELSE IF c.op = "upsert_documents" /\ c.args[1] = "log"
    THEN {l \in DOMAIN up_items :
            \E k \in DOMAIN up_items[l] : IntToStr(up_items[l][k].id) = c.args[3].item_id}
    ELSE {}

\* the launches a page of launches delivered
PageLaunches(c) == {c.resp.items[k].id : k \in DOMAIN c.resp.items}

LaunchPages == {i \in DOMAIN calls : calls[i].op = "get_launches" /\ calls[i].ok}

\* C25: the calls of a run are made one after the other, kinds in the order
\* of entity_types and, within a kind, projects in the order of
\* project_names; a page of launches is upserted right after it arrives and
\* before any call for the test items or logs of its launches, and all of
\* these calls are made before the next page of launches is requested.
C25_SequentialInPageOrder ==
    (request # None /\ outcome.status \in {"pending", "returned"}) =>
        /\ \A i, j \in DOMAIN calls :
              i < j =>
                /\ KindRank(calls[i]) <= KindRank(calls[j])
                /\ (calls[i].during = calls[j].during /\ calls[i].during \in PerProject) =>
                      Position(ProjectsOf(Req), ProjectOfCall(calls[i]))
                        <= Position(ProjectsOf(Req), ProjectOfCall(calls[j]))
        /\ \A j \in DOMAIN calls :
              NestedUnder(calls[j]) # {} =>
                \E i \in LaunchPages :
                    /\ NestedUnder(calls[j]) \subseteq PageLaunches(calls[i])
                    /\ i + 1 < j
                    /\ calls[i + 1].op = "upsert_documents"
                    /\ calls[i + 1].args[1] = "launch"
                    /\ calls[i + 1].args[2] = calls[i].resp.items
                    /\ \A k \in DOMAIN calls :
                          (calls[k].op = "get_launches" /\ k # i) => (k < i \/ j < k)

\* a returned run in which a project had two pages of launches, the first
\* with a launch whose items and logs were fetched and stored
C25_Witness ==
    /\ outcome.status = "returned"
    /\ \E i, k \in LaunchPages :
          /\ i < k
          /\ calls[i].args[1] = calls[k].args[1]
          /\ calls[k].args[2] = calls[i].args[2] + 1
          /\ calls[k].resp.items # <<>>
          /\ \E j \in DOMAIN calls :
                /\ calls[j].op = "upsert_documents" /\ calls[j].args[1] = "log"
                /\ calls[j].ok
                /\ NestedUnder(calls[j]) \subseteq PageLaunches(calls[i])
          /\ \E j \in DOMAIN calls :
                /\ calls[j].op = "get_test_items"
                /\ NestedUnder(calls[j]) \subseteq PageLaunches(calls[k])
    /\ \E i, j \in DOMAIN calls : calls[i].during = "dashboard" /\ calls[j].during = "launch"

\* the upserts of a page of test items that were carried out
ItemUpserts ==
    {i \in DOMAIN calls :
        /\ calls[i].op = "upsert_documents" /\ calls[i].args[1] = "test_item"
        /\ calls[i].ok}

LogRequests == {j \in DOMAIN calls : calls[j].op = "get_logs"}

FailedOrBroken(item) == "status" \in DOMAIN item /\ item.status \in {"FAILED", "BROKEN"}

\* a call raised out of the iteration after call number i
RaisedAfter(i) ==
    \E k \in DOMAIN calls :
        k > i /\ ~calls[k].ok /\ calls[k].op # "get_widgets"
              /\ calls[k].during = calls[i].during

OnlyWidgetsFailed ==
    /\ \E i \in DOMAIN calls : calls[i].op = "get_widgets" /\ ~calls[i].ok
    /\ \A i \in DOMAIN calls :
          (calls[i].during = "dashboard" /\ ~calls[i].ok) => calls[i].op = "get_widgets"

\* the get_widgets call for a widget of a project
WidgetCall(project_name, w) ==
    CHOOSE i \in DOMAIN calls :
        calls[i].op = "get_widgets" /\ calls[i].args = <<project_name, w>>

\* the widgets of a dashboard whose fetch succeeded, in the dashboard's order
FetchedWidgets(project_name, dashboard) ==
    SelectSeq(dashboard.widgets,
              LAMBDA w : calls[WidgetCall(project_name, w.widgetId)].ok)

\* the dashboards the upstream delivered for the projects of the run
DeliveredDashboards ==
    {i \in DOMAIN calls : calls[i].op = "get_dashboards" /\ calls[i].ok
                          /\ calls[i].resp.items # <<>>}

\* C27: when fetches of widgets raise during the dashboard sync and nothing
\* else does, every page of dashboards is still upserted, each dashboard with
\* the details of exactly its successfully fetched widgets in their order;
\* every widget of every dashboard is requested; the returned result counts
\* all the dashboards and has no error entry for the kind.
C27_WidgetFailureNotFatal ==
    (outcome.status = "returned" /\ OnlyWidgetsFailed) =>
        /\ \A i \in DeliveredDashboards :
              LET page == calls[i].resp.items
                  project_name == calls[i].args[1]
              IN \E u \in DOMAIN calls :
                    /\ u > i
                    /\ calls[u].op = "upsert_documents" /\ calls[u].ok
                    /\ calls[u].args[1] = "dashboard"
                    /\ Len(calls[u].args[2]) = Len(page)
                    /\ \A k \in DOMAIN page :
                          /\ calls[u].args[2][k].id = page[k].id
                          /\ "widgets" \in DOMAIN page[k] =>
                                /\ \A n \in DOMAIN page[k].widgets :
                                      \E c \in DOMAIN calls :
                                          /\ i < c /\ c < u
                                          /\ calls[c].op = "get_widgets"
                                          /\ calls[c].args =
                                                <<project_name, page[k].widgets[n].widgetId>>
                                /\ calls[u].args[2][k].widget_details =
                                      [n \in DOMAIN FetchedWidgets(project_name, page[k]) |->
                                          get_widgets(project_name,
                                              FetchedWidgets(project_name, page[k])[n].widgetId)]
                          /\ "widgets" \notin DOMAIN page[k] =>
                                calls[u].args[2][k] = page[k]
        /\ "dashboard" \in DOMAIN outcome.stats.entity_stats
        /\ outcome.stats.entity_stats["dashboard"] =
              Synced(SelectSeq(calls, LAMBDA c : c.during = "dashboard"), "dashboard")
        /\ \A e \in DOMAIN outcome.stats.errors :
              outcome.stats.errors[e][1] # "dashboard"

\* a returned run in which the fetch of the second of three widgets raised:
\* the dashboard was upserted with the details of the first and the third,
\* and the page with the dashboard after it was counted in full
C27_Witness ==
    /\ outcome.status = "returned"
    /\ OnlyWidgetsFailed
    /\ \E u \in DOMAIN calls :
          /\ calls[u].op = "upsert_documents" /\ calls[u].args[1] = "dashboard"
          /\ \E k \in DOMAIN calls[u].args[2] :
                /\ "widget_details" \in DOMAIN calls[u].args[2][k]
                /\ Len(calls[u].args[2][k].widgets) = 3
                /\ Len(calls[u].args[2][k].widget_details) = 2
                /\ calls[u].args[2][k].widget_details[1].id = 1
                /\ calls[u].args[2][k].widget_details[2].id = 3
    /\ outcome.stats.entity_stats["dashboard"] = 2
    /\ outcome.stats.errors = <<>>

\* the calls that fetch or store test items or logs
ItemOrLogCall(c) ==
    \/ c.op \in {"get_test_items", "get_logs"}
    \/ c.op = "upsert_documents" /\ c.args[1] \in {"test_item", "log"}

\* C28: every call that fetches or stores test items or logs is made by the
\* iteration for kind launch, so a run that does not list launch makes none;
\* the per-kind counts of a returned result have no entry for test_item or
\* for log.
C28_ItemsAndLogsOnlyUnderLaunch ==
    /\ \A i \in DOMAIN calls : ItemOrLogCall(calls[i]) => calls[i].during = "launch"
    /\ (request # None /\ \A k \in DOMAIN KindsOf(Req) : KindsOf(Req)[k] # "launch") =>
            \A i \in DOMAIN calls : ~ItemOrLogCall(calls[i])
    /\ outcome.status = "returned" =>
            /\ "test_item" \notin DOMAIN outcome.stats.entity_stats
            /\ "log" \notin DOMAIN outcome.stats.entity_stats

UpsertedKinds ==
    {calls[i].args[1] :
        i \in {j \in DOMAIN calls : calls[j].op = "upsert_documents" /\ calls[j].ok}}

\* a returned run that listed test_item and log without launch, against an
\* upstream with launches and failed items: it made calls, none for items or
\* logs
C28_WitnessWithoutLaunch ==
    /\ outcome.status = "returned"
    /\ Req.entity_types = Some(<<"test_item", "log", "filter">>)
    /\ calls # <<>>
    /\ up_launches # EmptyMap
    /\ \E l \in DOMAIN up_items : \E k \in DOMAIN up_items[l] : FailedOrBroken(up_items[l][k])
    /\ outcome.stats.errors = <<>>

\* a returned run over all kinds in which test items and logs were upserted
\* and the launch kind was counted
C28_Witness ==
    /\ outcome.status = "returned"
    /\ Req.entity_types = None
    /\ {"test_item", "log"} \subseteq UpsertedKinds
    /\ "launch" \in DOMAIN outcome.stats.entity_stats
    /\ outcome.stats.errors = <<>>

\* the kinds named by the error entries of a result, in order
ErrorKinds(stats) == [e \in DOMAIN stats.errors |-> stats.errors[e][1]]

\* C29: in a returned result of a run over distinct kinds, each requested
\* kind among project, user, launch, filter and dashboard has either a count
\* or an error entry and never both; no kind has two error entries; a kind
\* whose iteration raised has no count, whatever was upserted before.
C29_CountOrErrorPerKind ==
    (outcome.status = "returned"
        /\ \A a, b \in DOMAIN KindsOf(Req) : KindsOf(Req)[a] = KindsOf(Req)[b] => a = b) =>
        LET stats == outcome.stats
            kinds == {KindsOf(Req)[k] : k \in DOMAIN KindsOf(Req)}
        IN /\ \A kind \in kinds \cap {"project", "user", "launch", "filter", "dashboard"} :
                  (kind \in DOMAIN stats.entity_stats)
                      # (\E e \in DOMAIN stats.errors : ErrorKinds(stats)[e] = kind)
           /\ \A a, b \in DOMAIN stats.errors :
                  ErrorKinds(stats)[a] = ErrorKinds(stats)[b] => a = b
           /\ \A i \in DOMAIN calls :
                  (~calls[i].ok /\ calls[i].op # "get_widgets") =>
                      calls[i].during \notin DOMAIN stats.entity_stats

\* a returned run whose launch kind raised after launches had been upserted:
\* the result has an error entry for launch, no count for it, and counts for
\* the other kinds
C29_Witness ==
    /\ outcome.status = "returned"
    /\ \E i, j \in DOMAIN calls :
          /\ i < j
          /\ calls[i].op = "upsert_documents" /\ calls[i].args[1] = "launch" /\ calls[i].ok
          /\ calls[i].resp > 0
          /\ ~calls[j].ok /\ calls[j].during = "launch"
    /\ "launch" \notin DOMAIN outcome.stats.entity_stats
    /\ ErrorKinds(outcome.stats) = <<"launch">>
    /\ {"user", "dashboard"} \subseteq DOMAIN outcome.stats.entity_stats

====
